---- MODULE Spec2Model ----
(***************************************************************************)
(* Home-scan service: the in-memory session store (session-store.ts), the  *)
(* HTTP routes that mutate it (session, upload, relate, delete, analyze)   *)
(* and the result grouping of the results route.                           *)
(*                                                                         *)
(* Time is counted in hours.  A session is a record; the store is a        *)
(* function whose domain is the set of ids that the Map holds.  An image   *)
(* is a record [id, parentImageId, analysisStatus]; the fields the logic   *)
(* never reads (filename, paths, uploadedAt) are left out.                 *)
(***************************************************************************)
EXTENDS Integers, Sequences, FiniteSets, Bags, TLC

(* ---------------------------- bounds ----------------------------------- *)
MaxTime == 25          \* the clock stops advancing here
MaxImages == 3         \* image ids handed out over one behaviour
MaxStoreImages == 1    \* the same, when the store is called directly
MaxInFlight == 1       \* requests that can be between two awaits at once
MaxBatch == 2          \* image ids handed out while analyses run
MaxAnalyses == 2       \* the same as MaxInFlight, while analyses run
MaxGroupLen == 3       \* length of the image lists given to the grouping
MaxUploads == 2        \* uploads that can be between two awaits at once
MaxUploadIds == 4      \* image ids handed out while uploads race for the cap
MaxAdds == 3           \* image ids handed out while adds and updates overlap
MaxTags == 1           \* tags given to calculateRiskScore
MaxObjects == 1        \* detected objects given to calculateRiskScore
MaxItems == 1          \* areas, and recommendations, in a report text
MaxOverall == 2        \* analyses given to calculateOverallRiskScore
MaxRecs == 2           \* recommendations in a report text with priorities
MaxBatchImages == 11   \* images of a session analyzed in one batch

(* ------------------------ program constants ---------------------------- *)
SESSION_EXPIRY_HOURS == 24
NoParent == 0          \* parentImageId undefined
NoReport == 0          \* securityReport undefined
NoLocation == 0        \* location undefined

SessionIds == {"s1", "s2"}
RouteSessionIds == {"s1"}   \* the session the HTTP clients talk about
NoId == ""                  \* a request body without the id
MAX_IMAGES_PER_SESSION == 3 \* process.env.MAX_IMAGES_PER_SESSION
MAX_IMAGES_PER_BATCH == 10
Report == 1                 \* a SecurityReport that parseSecurityReport built
ClockSteps == {12, 13} \* hours the clock may advance in one step
Statuses == {"pending", "analyzing", "complete", "error"}

VARIABLES
  sessions,      \* the Map<string, Session> of session-store.ts
  now,           \* the wall clock, in hours
  nextImageId,   \* next id processAndStoreImage hands out (uuid: never reused)
  last,          \* what the last finished call or request returned
  reqs           \* the bag of requests that are suspended at an await

vars == <<sessions, now, nextImageId, last, reqs>>

(* ------------------------- sequence helpers ---------------------------- *)
Range(s) == {s[i] : i \in 1..Len(s)}

RECURSIVE FilterSeq(_, _)
\* Array.prototype.filter with the predicate given as the set of kept values
FilterSeq(s, keep) ==
  IF s = <<>> THEN <<>>
  ELSE IF Head(s) \in keep THEN <<Head(s)>> \o FilterSeq(Tail(s), keep)
       ELSE FilterSeq(Tail(s), keep)

\* Array.prototype.findIndex on image ids; 0 stands for -1
FindIndex(images, imageId) ==
  IF \E i \in 1..Len(images) : images[i].id = imageId
  THEN CHOOSE i \in 1..Len(images) :
         /\ images[i].id = imageId
         /\ \A j \in 1..(i - 1) : images[j].id # imageId
  ELSE 0

ImageIdsOf(images) == {images[i].id : i \in 1..Len(images)}

(* --------------------------- session store ----------------------------- *)
\* an off-by-one expiry test: a session is gone at expiresAt already
ExpiredAtDeadline(s, t) == t >= s.expiresAt

\* the expiry test of getSession: new Date() > session.expiresAt
Expired(s, t) == t > s.expiresAt

DropKey(S, id) == [k \in (DOMAIN S) \ {id} |-> S[k]]
PutKey(S, id, s) == [k \in (DOMAIN S) \cup {id} |-> IF k = id THEN s ELSE S[k]]

\* a sweep that takes a session at its expiresAt already
cleanupAtDeadline(S, t) ==
  [k \in {i \in DOMAIN S : ~(t >= S[i].expiresAt)} |-> S[k]]

\* cleanupExpiredSessions: the sweep, run by createSession and by the timer
cleanupExpiredSessions(S, t) ==
  [k \in {i \in DOMAIN S : ~(t > S[i].expiresAt)} |-> S[k]]

NewSession(t) ==
  [createdAt |-> t, expiresAt |-> t + SESSION_EXPIRY_HOURS, images |-> <<>>,
   analysisStatus |-> "pending", securityReport |-> NoReport,
   location |-> NoLocation]

\* createSession: builds a fresh session, stores it under id, then sweeps
createSession(S, id, t) == cleanupExpiredSessions(PutKey(S, id, NewSession(t)), t)

\* getSession: .found tells whether a session is returned (it is .store[id]);
\* .store is the Map after the call (an expired entry is deleted)
getSession(S, id, t) ==
  IF id \in DOMAIN S /\ Expired(S[id], t)
  THEN [store |-> DropKey(S, id), found |-> FALSE]
  ELSE [store |-> S, found |-> id \in DOMAIN S]

\* an update that stores the fields under the id whether or not a session
\* was found
updateSessionUpserts(S, id, updates, t) ==
  LET g == getSession(S, id, t) IN
  IF ~g.found
  THEN [store |-> PutKey(g.store, id, updates @@ NewSession(t)), found |-> FALSE]
  ELSE [store |-> PutKey(g.store, id, updates @@ g.store[id]), found |-> TRUE]

\* updateSession: { ...session, ...updates }
updateSession(S, id, updates, t) ==
  LET g == getSession(S, id, t) IN
  IF ~g.found THEN [store |-> g.store, found |-> FALSE]
  ELSE [store |-> PutKey(g.store, id, updates @@ g.store[id]), found |-> TRUE]

\* an add that writes back a list holding the new image alone
addImageOverwrites(S, id, image, t) ==
  IF id \in DOMAIN S /\ ~(t > S[id].expiresAt)
  THEN [store |-> [S EXCEPT ![id].images = <<image>>], found |-> TRUE]
  ELSE [store |-> DropKey(S, id), found |-> FALSE]

\* addImageToSession: session.images.push(image)
addImageToSession(S, id, image, t) ==
  LET g == getSession(S, id, t) IN
  IF ~g.found THEN [store |-> g.store, found |-> FALSE]
  ELSE [store |-> [g.store EXCEPT ![id].images = Append(@, image)],
        found |-> TRUE]

\* updateImageInSession: undefined when the session or the image is missing
updateImageInSession(S, id, imageId, updates, t) ==
  LET g == getSession(S, id, t) IN
  IF ~g.found THEN [store |-> g.store, found |-> FALSE]
  ELSE LET i == FindIndex(g.store[id].images, imageId) IN
       IF i = 0 THEN [store |-> g.store, found |-> FALSE]
       ELSE [store |-> [g.store EXCEPT ![id].images[i] = updates @@ @],
             found |-> TRUE]

\* getImageFromSession: .found tells whether an image is returned (.image)
getImageFromSession(S, id, imageId, t) ==
  LET g == getSession(S, id, t) IN
  IF ~g.found THEN [store |-> g.store, found |-> FALSE, image |-> <<>>]
  ELSE LET i == FindIndex(g.store[id].images, imageId) IN
       IF i = 0 THEN [store |-> g.store, found |-> FALSE, image |-> <<>>]
       ELSE [store |-> g.store, found |-> TRUE, image |-> g.store[id].images[i]]

\* a removal that forgets the cascade to the children
removeOnlyTheImage(S, id, imageId, t) ==
  IF id \in DOMAIN S /\ t > S[id].expiresAt
  THEN [store |-> DropKey(S, id), found |-> FALSE]
  ELSE IF id \notin DOMAIN S THEN [store |-> S, found |-> FALSE]
  ELSE LET imgs == S[id].images IN
       [store |-> [S EXCEPT ![id].images =
                     FilterSeq(imgs, {m \in Range(imgs) : m.id # imageId})],
        found |-> TRUE]

\* removeImageFromSession: two filters, the image and then its children
removeImageFromSession(S, id, imageId, t) ==
  LET g == getSession(S, id, t) IN
  IF ~g.found THEN [store |-> g.store, found |-> FALSE]
  ELSE LET imgs == g.store[id].images
           f1 == FilterSeq(imgs, {m \in Range(imgs) : m.id # imageId})
           f2 == FilterSeq(f1, {m \in Range(f1) : m.parentImageId # imageId})
       IN [store |-> [g.store EXCEPT ![id].images = f2], found |-> TRUE]

\* deleteSession: Map.delete, true when the key was there
deleteSession(S, id) == [store |-> DropKey(S, id), found |-> id \in DOMAIN S]

(* ------------------------------ results -------------------------------- *)
\* .evicted: the call deleted at least one expired session from the Map
Returned(op, found, after) ==
  [op |-> op, ret |-> IF found THEN "found" ELSE "undefined",
   evicted |-> (DOMAIN after) # ((DOMAIN sessions) \cup (DOMAIN after))]

\* an HTTP response: the route and the status code
Response(op, code) == [op |-> op, ret |-> code, evicted |-> FALSE]

\* an error response with the message of its body
Rejected(op, code, error) ==
  [op |-> op, ret |-> code, evicted |-> FALSE, error |-> error]

NewImage(imageId, parent) ==
  [id |-> imageId, parentImageId |-> parent, analysisStatus |-> "pending"]

\* the image ids a client can name: those handed out so far, whether the
\* image is still in a session or not
ParentInputs == 1..(nextImageId - 1)

InFlight(kind) == {q \in BagToSet(reqs) : q.kind = kind}

\* a handler reaches an await and is suspended / is resumed and finishes
CanSuspend(max) == BagCardinality(reqs) < max
\* an upload may start while an id is left for it and for those in flight
IdsLeft(max) ==
  LET up == InFlight("upload") IN
  nextImageId + BagCardinality([q \in up |-> CopiesIn(q, reqs)]) <= max
Suspend(q) == reqs (+) SetToBag({q})
Resume(q) == reqs (-) SetToBag({q})

(* ------------------------- the clock and timer ------------------------- *)
Tick(d) ==
  /\ now + d <= MaxTime
  /\ now' = now + d
  /\ UNCHANGED <<sessions, nextImageId, last, reqs>>

\* setInterval(cleanupExpiredSessions, 1h)
Sweep ==
  /\ sessions' = cleanupExpiredSessions(sessions, now)
  /\ last' = Returned("sweep", FALSE, sessions')
  /\ UNCHANGED <<now, nextImageId, reqs>>

(* ----------------------- store calls, one by one ----------------------- *)
StoreCreate(id) ==
  /\ sessions' = createSession(sessions, id, now)
  /\ last' = Returned("create", TRUE, sessions')
  /\ UNCHANGED <<now, nextImageId, reqs>>

StoreGet(id) ==
  LET r == getSession(sessions, id, now) IN
  /\ sessions' = r.store
  /\ last' = Returned("get", r.found, r.store)
  /\ UNCHANGED <<now, nextImageId, reqs>>

SessionUpdates ==
  {[analysisStatus |-> "complete", securityReport |-> Report, location |-> 1]}

StoreUpdate(id, u) ==
  LET r == updateSession(sessions, id, u, now) IN
  /\ sessions' = r.store
  /\ last' = Returned("update", r.found, r.store)
  /\ UNCHANGED <<now, nextImageId, reqs>>

StoreAddImage(id, parent) ==
  LET r == addImageToSession(sessions, id, NewImage(nextImageId, parent), now) IN
  /\ nextImageId <= MaxStoreImages
  /\ sessions' = r.store
  /\ nextImageId' = IF r.found THEN nextImageId + 1 ELSE nextImageId
  /\ last' = Returned("addImage", r.found, r.store)
  /\ UNCHANGED <<now, reqs>>

ImageUpdates == {[analysisStatus |-> "complete"]}

StoreUpdateImage(id, imageId, u) ==
  LET r == updateImageInSession(sessions, id, imageId, u, now) IN
  /\ sessions' = r.store
  /\ last' = Returned("updateImage", r.found, r.store)
  /\ UNCHANGED <<now, nextImageId, reqs>>

StoreGetImage(id, imageId) ==
  LET r == getImageFromSession(sessions, id, imageId, now) IN
  /\ sessions' = r.store
  /\ last' = Returned("getImage", r.found, r.store)
  /\ UNCHANGED <<now, nextImageId, reqs>>

StoreRemoveImage(id, imageId) ==
  LET r == removeImageFromSession(sessions, id, imageId, now) IN
  /\ sessions' = r.store
  /\ last' = Returned("removeImage", r.found, r.store)
  /\ UNCHANGED <<now, nextImageId, reqs>>

StoreDelete(id) ==
  LET r == deleteSession(sessions, id) IN
  /\ sessions' = r.store
  /\ last' = Returned("delete", r.found, sessions)
  /\ UNCHANGED <<now, nextImageId, reqs>>

Init ==
  /\ sessions = [k \in {} |-> 0]
  /\ now = 0
  /\ nextImageId = 1
  /\ last = [op |-> "none", ret |-> "undefined", evicted |-> FALSE]
  /\ reqs = EmptyBag

\* every exported function of the store, called with any arguments
NextStore ==
  \/ \E d \in ClockSteps : Tick(d)
  \/ Sweep
  \/ \E id \in SessionIds : StoreCreate(id)
  \/ \E id \in SessionIds : StoreGet(id)
  \/ \E id \in SessionIds, u \in SessionUpdates : StoreUpdate(id, u)
  \/ \E id \in SessionIds, p \in 0..(nextImageId - 1) : StoreAddImage(id, p)
  \/ \E id \in SessionIds, i \in 1..MaxStoreImages, u \in ImageUpdates :
       StoreUpdateImage(id, i, u)
  \/ \E id \in SessionIds, i \in 1..MaxStoreImages : StoreGetImage(id, i)
  \/ \E id \in SessionIds, i \in 1..MaxStoreImages : StoreRemoveImage(id, i)
  \/ \E id \in SessionIds : StoreDelete(id)

SpecStore == Init /\ [][NextStore]_vars

(* ----------------------- routes: /api/session --------------------------- *)
\* a POST that creates without looking the id up
PostSessionAlwaysCreates(id) ==
  /\ UNCHANGED <<now, nextImageId, reqs>>
  /\ id # NoId
  /\ sessions' = createSession(sessions, id, now)
  /\ last' = Response("POST session", "201")

\* POST /api/session: return the live session, or create one
PostSession(id) ==
  /\ UNCHANGED <<now, nextImageId, reqs>>
  /\ IF id = NoId
     THEN /\ last' = Response("POST session", "400")
          /\ UNCHANGED sessions
     ELSE LET g == getSession(sessions, id, now) IN
          IF g.found
          THEN /\ sessions' = g.store
               /\ last' = Response("POST session", "200")
          ELSE /\ sessions' = createSession(g.store, id, now)
               /\ last' = Response("POST session", "201")

\* GET /api/session?id=
GetSessionRoute(id) ==
  /\ UNCHANGED <<now, nextImageId, reqs>>
  /\ IF id = NoId
     THEN /\ last' = Response("GET session", "400")
          /\ UNCHANGED sessions
     ELSE LET g == getSession(sessions, id, now) IN
          /\ sessions' = g.store
          /\ last' = Response("GET session", IF g.found THEN "200" ELSE "404")

\* PATCH /api/session: location and/or analysisStatus, when truthy
PatchSession(id, updates) ==
  /\ UNCHANGED <<now, nextImageId, reqs>>
  /\ IF id = NoId
     THEN /\ last' = Response("PATCH session", "400")
          /\ UNCHANGED sessions
     ELSE LET u == updateSession(sessions, id, updates, now) IN
          /\ sessions' = u.store
          /\ last' = Response("PATCH session", IF u.found THEN "200" ELSE "404")

(* ------------------------- route: /api/upload -------------------------- *)
\* the file of the form: accepted, or turned down (none, wrong type, too large)
FileInputs == {"ok", "rejected"}

\* the handler up to its first await after validation (file.arrayBuffer())
UploadBegin(sid, parent, file) ==
  /\ UNCHANGED <<now, nextImageId>>
  /\ IF sid = NoId
     THEN /\ last' = Response("upload", "400")
          /\ UNCHANGED <<sessions, reqs>>
     ELSE LET g == getSession(sessions, sid, now) IN
          /\ sessions' = g.store
          /\ IF ~g.found
             THEN /\ last' = Response("upload", "404")
                  /\ UNCHANGED reqs
             ELSE IF Len(g.store[sid].images) >= MAX_IMAGES_PER_SESSION
                     \/ file # "ok"
             THEN /\ last' = Response("upload", "400")
                  /\ UNCHANGED reqs
             ELSE /\ reqs' = Suspend([kind |-> "upload", sid |-> sid,
                                       parent |-> parent])
                  /\ UNCHANGED last

\* processAndStoreImage returned (or threw), then addImageToSession, whose
\* result the handler does not look at
UploadFinish(q, processed) ==
  /\ q \in InFlight("upload")
  /\ reqs' = Resume(q)
  /\ UNCHANGED now
  /\ IF ~processed
     THEN /\ last' = Response("upload", "500")
          /\ UNCHANGED <<sessions, nextImageId>>
     ELSE /\ sessions' = addImageToSession(sessions, q.sid,
                           NewImage(nextImageId, q.parent), now).store
          /\ nextImageId' = nextImageId + 1
          /\ last' = Response("upload", "201")

(* ------------------ route: /api/images/:sid/:id/relate ------------------ *)
\* a relate that links before it validates the link
relateLinksFirst(S, sid, imageId, parent, t) ==
  LET u == updateImageInSession(S, sid, imageId, [parentImageId |-> parent], t)
  IN [store |-> u.store,
      response |-> IF u.found /\ parent # NoParent /\ parent # imageId
                   THEN Response("relate", "200")
                   ELSE Rejected("relate", "400", "Cannot link image to itself")]

\* the handler, which has no await after the body is parsed: the Map after
\* it and its response
relate(S, sid, imageId, parent, t) ==
  IF parent = NoParent
  THEN [store |-> S,
        response |-> Rejected("relate", "400", "Parent image ID is required")]
  ELSE LET g == getSession(S, sid, t)
           c == getImageFromSession(g.store, sid, imageId, t)
           q == getImageFromSession(c.store, sid, parent, t)
           u == updateImageInSession(q.store, sid, imageId,
                                     [parentImageId |-> parent], t)
       IN
       IF ~g.found \/ ~c.found \/ ~q.found
       THEN [store |-> g.store,
             response |-> Rejected("relate", "404",
                            IF ~g.found THEN "Session not found or expired"
                            ELSE IF ~c.found THEN "Child image not found"
                            ELSE "Parent image not found")]
       ELSE IF imageId = parent \/ q.image.parentImageId # NoParent
       THEN [store |-> g.store,
             response |-> Rejected("relate", "400",
                            IF imageId = parent
                            THEN "Cannot link image to itself"
                            ELSE "Cannot link to an image that is already a related image")]
       ELSE [store |-> u.store,
             response |-> Response("relate", IF u.found THEN "200" ELSE "500")]

Relate(sid, imageId, parent) ==
  /\ UNCHANGED <<now, nextImageId, reqs>>
  /\ LET r == relate(sessions, sid, imageId, parent, now) IN
     /\ sessions' = r.store
     /\ last' = r.response

(* --------------------- route: DELETE /api/images ------------------------ *)
\* the handler up to the await of fs.unlink
DeleteBegin(sid, imageId) ==
  /\ UNCHANGED <<now, nextImageId>>
  /\ LET g == getSession(sessions, sid, now)
         c == getImageFromSession(g.store, sid, imageId, now)
     IN
     /\ sessions' = g.store
     /\ IF ~g.found \/ ~c.found
        THEN /\ last' = Response("delete", "404")
             /\ UNCHANGED reqs
        ELSE /\ reqs' = Suspend([kind |-> "delete", sid |-> sid,
                                  img |-> imageId])
             /\ UNCHANGED last

\* after the unlinks (whose failure is swallowed): removeImageFromSession
DeleteFinish(q) ==
  /\ q \in InFlight("delete")
  /\ reqs' = Resume(q)
  /\ UNCHANGED <<now, nextImageId>>
  /\ LET d == removeImageFromSession(sessions, q.sid, q.img, now) IN
     /\ sessions' = d.store
     /\ last' = IF d.found
                THEN [op |-> "delete", ret |-> "200", evicted |-> FALSE,
                      removedImageId |-> q.img,
                      removed |-> Range(sessions[q.sid].images)
                                    \ Range(d.store[q.sid].images)]
                ELSE Response("delete", "500")

\* the requests the image pages send to a session, in any order and overlap;
\* the session does not reach its expiry while they run
NextImages ==
  \/ \E id \in RouteSessionIds \cup {NoId} : PostSession(id)
  \/ \E sid \in RouteSessionIds \cup {NoId},
        p \in {NoParent} \cup ParentInputs, f \in FileInputs :
       CanSuspend(MaxInFlight) /\ IdsLeft(MaxImages) /\ UploadBegin(sid, p, f)
  \/ \E q \in InFlight("upload"), ok \in BOOLEAN : UploadFinish(q, ok)
  \/ \E sid \in RouteSessionIds, i \in 1..MaxImages,
        p \in {NoParent} \cup ParentInputs : Relate(sid, i, p)
  \/ \E sid \in RouteSessionIds, i \in 1..MaxImages :
       CanSuspend(MaxInFlight) /\ DeleteBegin(sid, i)
  \/ \E q \in InFlight("delete") : DeleteFinish(q)

SpecImages == Init /\ [][NextImages]_vars

\* uploads to one session that overlap, up to and beyond the cap
NextUpload ==
  \/ \E d \in ClockSteps : Tick(d)
  \/ \E id \in RouteSessionIds : PostSession(id)
  \/ \E sid \in RouteSessionIds, f \in FileInputs :
       CanSuspend(MaxUploads) /\ IdsLeft(MaxUploadIds) /\ UploadBegin(sid, NoParent, f)
  \/ \E q \in InFlight("upload"), p \in BOOLEAN : UploadFinish(q, p)

SpecUpload == Init /\ [][NextUpload]_vars

\* uploads to one session that overlap with each other and with calls of
\* updateSession, updateImageInSession and removeImageFromSession; every
\* store function is synchronous, so a call is one step
NextAdds ==
  \/ \E id \in RouteSessionIds : PostSession(id)
  \/ \E sid \in RouteSessionIds, p \in {NoParent} \cup ParentInputs :
       CanSuspend(MaxUploads) /\ IdsLeft(MaxAdds) /\ UploadBegin(sid, p, "ok")
  \/ \E q \in InFlight("upload") : UploadFinish(q, TRUE)
  \/ \E id \in RouteSessionIds, u \in SessionUpdates : StoreUpdate(id, u)
  \/ \E id \in RouteSessionIds, i \in 1..MaxAdds, u \in ImageUpdates :
       StoreUpdateImage(id, i, u)
  \/ \E id \in RouteSessionIds, i \in 1..MaxAdds : StoreRemoveImage(id, i)

SpecAdds == Init /\ [][NextAdds]_vars

(* ------------------------- route: /api/analyze ------------------------- *)
LoadOutcomes == {"buffer", "null", "throw"}    \* await getImageBuffer(...)
ScoreOutcomes == {"report", "null", "throw"}   \* await analyzeMultipleImages(...)

\* session.images.filter(img => img.analysisStatus === 'pending'), as ids
PendingIds(images) ==
  LET p == FilterSeq(images, {m \in Range(images) : m.analysisStatus = "pending"})
  IN [i \in 1..Len(p) |-> p[i].id]

RECURSIVE MarkImages(_, _, _, _, _)
\* for (const image of ...) updateImageInSession(sid, image.id, { analysisStatus })
MarkImages(S, sid, ids, status, t) ==
  IF ids = <<>> THEN S
  ELSE MarkImages(updateImageInSession(S, sid, Head(ids),
                                       [analysisStatus |-> status], t).store,
                  sid, Tail(ids), status, t)

\* every image of the batch met so far, failedImages included
LoadedIdsWithFailed(q) ==
  [i \in 1..(IF q.idx > Len(q.pending) THEN Len(q.pending)
             ELSE q.idx - 1) |-> q.pending[i]]

\* the images of the batch whose buffer loaded: pendingImages that are not
\* in failedImages, in the order of pendingImages
LoadedIds(q) ==
  LET seen == [i \in 1..(IF q.idx > Len(q.pending) THEN Len(q.pending)
                         ELSE q.idx - 1) |-> q.pending[i]]
  IN FilterSeq(seen, Range(seen) \ q.failed)

\* a scoring call that gets every buffer, however many there are
SentAll(loaded) == loaded

\* imageBuffers.slice(0, MAX_IMAGES_PER_BATCH) when there are more than that
SentIds(loaded) ==
  IF Len(loaded) > MAX_IMAGES_PER_BATCH
  THEN SubSeq(loaded, 1, MAX_IMAGES_PER_BATCH)
  ELSE loaded

\* a batch status that takes anything that did not throw for a report
BatchStatusUnlessThrown(scored) == IF scored = "throw" THEN "error" ELSE "complete"

\* the status every loaded image gets once the scoring call is over
BatchStatus(scored) == IF scored = "report" THEN "complete" ELSE "error"

\* a final update that looks at the buffers only, not at the report
FinalUpdateBuffersOnly(buffers, report) ==
  [analysisStatus |-> IF buffers > 0 THEN "complete" ELSE "error",
   securityReport |-> report]

\* the last updateSession of the handler
FinalUpdate(buffers, report) ==
  [analysisStatus |-> IF buffers > 0 /\ report # NoReport THEN "complete"
                      ELSE "error",
   securityReport |-> report]

\* the response of a request that got past validation, with what it did
AnalyzeDone(sid, pending, failed, scored) ==
  [op |-> "analyze", ret |-> "200", evicted |-> FALSE, sid |-> sid,
   pending |-> pending, failed |-> failed, scored |-> scored]

\* a handler that sets the session to analyzing before it counts the images
AnalyzeBeginMarksFirst(sid, configured) ==
  /\ UNCHANGED <<now, nextImageId>>
  /\ IF sid = NoId
     THEN /\ last' = Rejected("analyze", "400", "Session ID is required")
          /\ UNCHANGED <<sessions, reqs>>
     ELSE LET g == updateSession(sessions, sid,
                                 [analysisStatus |-> "analyzing"], now) IN
          IF ~g.found
          THEN /\ sessions' = g.store
               /\ last' = Response("analyze", "404")
               /\ UNCHANGED reqs
          ELSE IF Len(g.store[sid].images) = 0
          THEN /\ sessions' = g.store
               /\ last' = Rejected("analyze", "400", "No images to analyze")
               /\ UNCHANGED reqs
          ELSE IF ~configured
          THEN /\ sessions' = g.store
               /\ last' = Response("analyze", "500")
               /\ UNCHANGED reqs
          ELSE LET pending == PendingIds(g.store[sid].images) IN
               IF pending = <<>>
               THEN /\ sessions' = updateSession(g.store, sid,
                                     FinalUpdate(0, NoReport), now).store
                    /\ last' = AnalyzeDone(sid, pending, {}, "none")
                    /\ UNCHANGED reqs
               ELSE /\ sessions' = updateImageInSession(g.store, sid, pending[1],
                                     [analysisStatus |-> "analyzing"], now).store
                    /\ reqs' = Suspend([kind |-> "analyze", sid |-> sid,
                                        pending |-> pending, idx |-> 1,
                                        failed |-> {}])
                    /\ UNCHANGED last

\* the handler up to its first await: validation, session to analyzing, the
\* first pending image to analyzing; without pending images it runs to its end
AnalyzeBegin(sid, configured) ==
  /\ UNCHANGED <<now, nextImageId>>
  /\ IF sid = NoId
     THEN /\ last' = Rejected("analyze", "400", "Session ID is required")
          /\ UNCHANGED <<sessions, reqs>>
     ELSE LET g == getSession(sessions, sid, now) IN
          IF ~g.found
          THEN /\ sessions' = g.store
               /\ last' = Response("analyze", "404")
               /\ UNCHANGED reqs
          ELSE IF Len(g.store[sid].images) = 0
          THEN /\ sessions' = g.store
               /\ last' = Rejected("analyze", "400", "No images to analyze")
               /\ UNCHANGED reqs
          ELSE IF ~configured
          THEN /\ sessions' = g.store
               /\ last' = Response("analyze", "500")
               /\ UNCHANGED reqs
          ELSE LET pending == PendingIds(g.store[sid].images)
                   started == updateSession(g.store, sid,
                                [analysisStatus |-> "analyzing"], now).store
               IN
               IF pending = <<>>
               THEN /\ sessions' = updateSession(started, sid,
                                     FinalUpdate(0, NoReport), now).store
                    /\ last' = AnalyzeDone(sid, pending, {}, "none")
                    /\ UNCHANGED reqs
               ELSE /\ sessions' = updateImageInSession(started, sid, pending[1],
                                     [analysisStatus |-> "analyzing"], now).store
                    /\ reqs' = Suspend([kind |-> "analyze", sid |-> sid,
                                        pending |-> pending, idx |-> 1,
                                        failed |-> {}])
                    /\ UNCHANGED last

\* a load whose failure is noted in failedImages only, the image staying as
\* it is
AnalyzeLoadedKeepsFailed(q, outcome) ==
  /\ q \in InFlight("analyze")
  /\ q.idx <= Len(q.pending)
  /\ UNCHANGED <<now, nextImageId>>
  /\ LET imageId == q.pending[q.idx]
         failed == IF outcome = "buffer" THEN q.failed ELSE q.failed \cup {imageId}
         next == [q EXCEPT !.idx = q.idx + 1, !.failed = failed]
     IN
     IF q.idx < Len(q.pending)
     THEN /\ sessions' = updateImageInSession(sessions, q.sid, q.pending[q.idx + 1],
                           [analysisStatus |-> "analyzing"], now).store
          /\ reqs' = Resume(q) (+) SetToBag({next})
          /\ UNCHANGED last
     ELSE IF Len(LoadedIds(next)) > 0
     THEN /\ sessions' = sessions
          /\ reqs' = Resume(q) (+) SetToBag({next})
          /\ UNCHANGED last
     ELSE /\ sessions' = updateSession(sessions, q.sid,
                           FinalUpdate(0, NoReport), now).store
          /\ reqs' = Resume(q)
          /\ last' = AnalyzeDone(q.sid, q.pending, failed, "none")

\* getImageBuffer of pending[idx] is over: a failure marks that image error;
\* then the loop goes on to the next image, or the loads are over and the
\* handler calls the scoring (or, without any buffer, runs to its end)
AnalyzeLoaded(q, outcome) ==
  /\ q \in InFlight("analyze")
  /\ q.idx <= Len(q.pending)
  /\ UNCHANGED <<now, nextImageId>>
  /\ LET imageId == q.pending[q.idx]
         failed == IF outcome = "buffer" THEN q.failed ELSE q.failed \cup {imageId}
         marked == IF outcome = "buffer" THEN sessions
                   ELSE updateImageInSession(sessions, q.sid, imageId,
                                             [analysisStatus |-> "error"], now).store
         next == [q EXCEPT !.idx = q.idx + 1, !.failed = failed]
     IN
     IF q.idx < Len(q.pending)
     THEN /\ sessions' = updateImageInSession(marked, q.sid, q.pending[q.idx + 1],
                           [analysisStatus |-> "analyzing"], now).store
          /\ reqs' = Resume(q) (+) SetToBag({next})
          /\ UNCHANGED last
     ELSE IF Len(LoadedIds(next)) > 0
     THEN /\ sessions' = marked
          /\ reqs' = Resume(q) (+) SetToBag({next})
          /\ UNCHANGED last
     ELSE /\ sessions' = updateSession(marked, q.sid,
                           FinalUpdate(0, NoReport), now).store
          /\ reqs' = Resume(q)
          /\ last' = AnalyzeDone(q.sid, q.pending, failed, "none")

\* analyzeMultipleImages is over: every loaded image gets the batch status,
\* the session gets the final status and the report
AnalyzeScored(q, scored) ==
  /\ q \in InFlight("analyze")
  /\ q.idx > Len(q.pending)
  /\ UNCHANGED <<now, nextImageId>>
  /\ LET loaded == LoadedIds(q)
         report == IF scored = "report" THEN Report ELSE NoReport
         marked == MarkImages(sessions, q.sid, loaded, BatchStatus(scored), now)
     IN
     /\ sessions' = updateSession(marked, q.sid,
                      FinalUpdate(Len(loaded), report), now).store
     /\ reqs' = Resume(q)
     /\ last' = [sent |-> SentIds(loaded)]
                @@ AnalyzeDone(q.sid, q.pending, q.failed, scored)

\* sessions, uploads and analyze requests, in any order and overlap, while
\* the clock runs past the expiry of the session
NextAnalyze ==
  \/ Tick(SESSION_EXPIRY_HOURS + 1)
  \/ \E id \in RouteSessionIds : PostSession(id)
  \/ \E sid \in RouteSessionIds :
       CanSuspend(MaxInFlight) /\ IdsLeft(MaxBatch) /\ UploadBegin(sid, NoParent, "ok")
  \/ \E q \in InFlight("upload") : UploadFinish(q, TRUE)
  \/ \E sid \in RouteSessionIds \cup {NoId}, c \in BOOLEAN :
       CanSuspend(MaxAnalyses) /\ AnalyzeBegin(sid, c)
  \/ \E q \in InFlight("analyze"), o \in LoadOutcomes : AnalyzeLoaded(q, o)
  \/ \E q \in InFlight("analyze"), o \in ScoreOutcomes : AnalyzeScored(q, o)

SpecAnalyze == Init /\ [][NextAnalyze]_vars

\* a session that uploads have filled with MaxBatchImages images, all
\* pending, under a MAX_IMAGES_PER_SESSION that allows as many (30 unless
\* the environment sets it)
BatchImages == [i \in 1..MaxBatchImages |-> NewImage(i, NoParent)]
InitBatch ==
  /\ sessions = [id \in RouteSessionIds |->
                   [NewSession(0) EXCEPT !.images = BatchImages]]
  /\ now = 0
  /\ nextImageId = MaxBatchImages + 1
  /\ last = [op |-> "upload", ret |-> "201", evicted |-> FALSE]
  /\ reqs = EmptyBag

\* analyze requests on that session, one after the other
NextBatch ==
  \/ \E sid \in RouteSessionIds : CanSuspend(1) /\ AnalyzeBegin(sid, TRUE)
  \/ \E q \in InFlight("analyze"), o \in LoadOutcomes : AnalyzeLoaded(q, o)
  \/ \E q \in InFlight("analyze"), o \in ScoreOutcomes : AnalyzeScored(q, o)

SpecBatch == InitBatch /\ [][NextBatch]_vars

\* the session routes, with uploads to fill the session
NextSession ==
  \/ \E d \in ClockSteps : Tick(d)
  \/ Sweep
  \/ \E id \in SessionIds \cup {NoId} : PostSession(id)
  \/ \E id \in SessionIds \cup {NoId} : GetSessionRoute(id)
  \/ \E id \in RouteSessionIds \cup {NoId}, u \in SessionUpdates : PatchSession(id, u)
  \/ \E sid \in RouteSessionIds :
       CanSuspend(MaxInFlight) /\ IdsLeft(MaxBatch) /\ UploadBegin(sid, NoParent, "ok")
  \/ \E q \in InFlight("upload") : UploadFinish(q, TRUE)

SpecSession == Init /\ [][NextSession]_vars

(* ---------------------- route: GET /api/results ------------------------ *)
\* calculateGroupRisk: no route ever sets image.analysis, so the list of
\* analyses is empty and the result is the default of that branch
calculateGroupRisk(images) ==
  [combinedRiskScore |-> 5, combinedRiskLevel |-> "medium"]

Group(primary, related) ==
  LET risk == calculateGroupRisk(<<primary>> \o related) IN
  [primaryImage |-> primary, relatedImages |-> related,
   combinedRiskScore |-> risk.combinedRiskScore,
   combinedRiskLevel |-> risk.combinedRiskLevel]

\* images.filter(img => !img.parentImageId)
primaryImages(images) ==
  FilterSeq(images, {m \in Range(images) : m.parentImageId = NoParent})

\* images.filter(img => img.parentImageId === primary.id)
relatedOf(images, primary) ==
  FilterSeq(images, {m \in Range(images) : m.parentImageId = primary.id})

\* the groups of the primary images, in the order of the list
primaryGroups(images) ==
  LET prim == primaryImages(images) IN
  [i \in 1..Len(prim) |-> Group(prim[i], relatedOf(images, prim[i]))]

\* a grouping that stops after the groups of the primary images
groupImagesWithoutOrphans(images) == primaryGroups(images)

\* groupImagesByParent: one group per primary image with the images that
\* name it as their parent, then one group per image that has a parent and
\* was not taken into a group
groupImagesByParent(images) ==
  LET groups == primaryGroups(images)
      processedIds ==
        UNION {{groups[i].primaryImage.id} \cup ImageIdsOf(groups[i].relatedImages)
               : i \in 1..Len(groups)}
      orphanedImages ==
        FilterSeq(images, {m \in Range(images) :
                             m.parentImageId # NoParent /\ m.id \notin processedIds})
  IN groups \o [i \in 1..Len(orphanedImages) |-> Group(orphanedImages[i], <<>>)]

CountStatus(images, statuses) ==
  Len(FilterSeq(images, {m \in Range(images) : m.analysisStatus \in statuses}))

\* GET /api/results/[sessionId]: the summary of a live session
GetResults(sid) ==
  /\ UNCHANGED <<now, nextImageId, reqs>>
  /\ LET g == getSession(sessions, sid, now) IN
     /\ sessions' = g.store
     /\ IF ~g.found
        THEN last' = Response("GET results", "404")
        ELSE LET images == g.store[sid].images IN
             last' = [op |-> "GET results", ret |-> "200", evicted |-> FALSE,
                      groupedResults |-> groupImagesByParent(images),
                      completedCount |-> CountStatus(images, {"complete"}),
                      errorCount |-> CountStatus(images, {"error"}),
                      pendingCount |-> CountStatus(images, {"pending", "analyzing"})]

\* the lists of at most MaxGroupLen images with distinct ids; a parent is
\* none, any id of the list (the image's own too) or an id not in the list
GroupInputs ==
  LET ids == 1..MaxGroupLen
      images == {NewImage(i, p) : i \in ids, p \in {NoParent} \cup ids \cup {MaxGroupLen + 1}}
  IN UNION {{l \in [1..n -> images] :
               \A i, j \in 1..n : i # j => l[i].id # l[j].id} : n \in 0..MaxGroupLen}

\* a session that holds one of the lists
InitGroup ==
  /\ \E l \in GroupInputs, id \in RouteSessionIds :
       sessions = PutKey([k \in {} |-> 0], id, [NewSession(0) EXCEPT !.images = l])
  /\ now = 0
  /\ nextImageId = MaxGroupLen + 2
  /\ last = [op |-> "none", ret |-> "undefined", evicted |-> FALSE]
  /\ reqs = EmptyBag

NextGroup ==
  \/ Tick(SESSION_EXPIRY_HOURS + 1)
  \/ \E sid \in RouteSessionIds : GetResults(sid)

SpecGroup == InitGroup /\ [][NextGroup]_vars

(* ------------------- azure-vision.ts: the risk score -------------------- *)
\* A string is the sequence of its characters, so that includes() and
\* toLowerCase() are computed; a score is counted in tenths, a location risk
\* factor in hundredths.
UpperCase ==
  <<"A", "B", "C", "D", "E", "F", "G", "H", "I", "J", "K", "L", "M",
    "N", "O", "P", "Q", "R", "S", "T", "U", "V", "W", "X", "Y", "Z">>
LowerCase ==
  <<"a", "b", "c", "d", "e", "f", "g", "h", "i", "j", "k", "l", "m",
    "n", "o", "p", "q", "r", "s", "t", "u", "v", "w", "x", "y", "z">>

\* String.prototype.toLowerCase, on the letters A to Z
toLowerCase(str) ==
  [i \in 1..Len(str) |->
     IF \E k \in 1..Len(UpperCase) : UpperCase[k] = str[i]
     THEN LowerCase[CHOOSE k \in 1..Len(UpperCase) : UpperCase[k] = str[i]]
     ELSE str[i]]

\* a search that finds a keyword only as a whole word
includesWord(str, kw) ==
  \E i \in 0..(Len(str) - Len(kw)) :
    /\ SubSeq(str, i + 1, i + Len(kw)) = kw
    /\ (i = 0 \/ str[i] = " ")
    /\ (i + Len(kw) = Len(str) \/ str[i + Len(kw) + 1] = " ")

\* String.prototype.includes
includes(str, kw) ==
  \E i \in 0..(Len(str) - Len(kw)) : SubSeq(str, i + 1, i + Len(kw)) = kw

RECURSIVE join(_, _)
\* Array.prototype.join
join(strs, sep) ==
  IF strs = <<>> THEN <<>>
  ELSE IF Len(strs) = 1 THEN strs[1]
  ELSE strs[1] \o sep \o join(Tail(strs), sep)

RECURSIVE filter(_, _)
\* keywords.filter(kw => allText.includes(kw))
filter(keywords, allText) ==
  IF keywords = <<>> THEN <<>>
  ELSE IF includes(allText, Head(keywords))
       THEN <<Head(keywords)>> \o filter(Tail(keywords), allText)
       ELSE filter(Tail(keywords), allText)

RECURSIVE unique(_)
\* [...new Set(recommendations)]: the first occurrence of each
unique(strs) ==
  IF strs = <<>> THEN <<>>
  ELSE LET front == unique(SubSeq(strs, 1, Len(strs) - 1))
           x == strs[Len(strs)]
       IN IF \E i \in 1..Len(front) : front[i] = x THEN front
          ELSE Append(front, x)

\* a table of positive keywords without the bare word lock
PositiveKeywordsWithoutLock ==
  <<<<"d", "e", "a", "d", "b", "o", "l", "t">>,
    <<"s", "e", "c", "u", "r", "i", "t", "y">>,
    <<"r", "e", "i", "n", "f", "o", "r", "c", "e", "d">>,
    <<"m", "e", "t", "a", "l">>, <<"s", "t", "e", "e", "l">>,
    <<"a", "l", "a", "r", "m">>, <<"c", "a", "m", "e", "r", "a">>,
    <<"s", "e", "n", "s", "o", "r">>, <<"b", "o", "l", "t">>,
    <<"c", "h", "a", "i", "n">>, <<"k", "e", "y", "p", "a", "d">>,
    <<"s", "m", "a", "r", "t", " ", "l", "o", "c", "k">>,
    <<"d", "o", "u", "b", "l", "e", " ", "g", "l", "a", "z", "e", "d">>,
    <<"t", "e", "m", "p", "e", "r", "e", "d">>, <<"b", "a", "r", "s">>,
    <<"g", "r", "i", "l", "l", "e">>,
    <<"p", "e", "e", "p", "h", "o", "l", "e">>,
    <<"i", "n", "t", "e", "r", "c", "o", "m">>,
    <<"v", "i", "d", "e", "o", " ", "d", "o", "o", "r", "b", "e", "l", "l">>,
    <<"m", "o", "t", "i", "o", "n", " ", "s", "e", "n", "s", "o", "r">>>>

SECURITY_POSITIVE_KEYWORDS ==
  <<<<"l", "o", "c", "k">>, <<"d", "e", "a", "d", "b", "o", "l", "t">>,
    <<"s", "e", "c", "u", "r", "i", "t", "y">>,
    <<"r", "e", "i", "n", "f", "o", "r", "c", "e", "d">>,
    <<"m", "e", "t", "a", "l">>, <<"s", "t", "e", "e", "l">>,
    <<"a", "l", "a", "r", "m">>, <<"c", "a", "m", "e", "r", "a">>,
    <<"s", "e", "n", "s", "o", "r">>, <<"b", "o", "l", "t">>,
    <<"c", "h", "a", "i", "n">>, <<"k", "e", "y", "p", "a", "d">>,
    <<"s", "m", "a", "r", "t", " ", "l", "o", "c", "k">>,
    <<"d", "o", "u", "b", "l", "e", " ", "g", "l", "a", "z", "e", "d">>,
    <<"t", "e", "m", "p", "e", "r", "e", "d">>, <<"b", "a", "r", "s">>,
    <<"g", "r", "i", "l", "l", "e">>,
    <<"p", "e", "e", "p", "h", "o", "l", "e">>,
    <<"i", "n", "t", "e", "r", "c", "o", "m">>,
    <<"v", "i", "d", "e", "o", " ", "d", "o", "o", "r", "b", "e", "l", "l">>,
    <<"m", "o", "t", "i", "o", "n", " ", "s", "e", "n", "s", "o", "r">>>>

SECURITY_NEGATIVE_KEYWORDS ==
  <<<<"b", "r", "o", "k", "e", "n">>, <<"d", "a", "m", "a", "g", "e", "d">>,
    <<"c", "r", "a", "c", "k">>, <<"r", "u", "s", "t">>, <<"o", "l", "d">>,
    <<"w", "o", "r", "n">>, <<"u", "n", "l", "o", "c", "k", "e", "d">>,
    <<"o", "p", "e", "n">>, <<"g", "a", "p">>, <<"h", "o", "l", "e">>,
    <<"w", "e", "a", "k">>, <<"r", "o", "t", "t", "e", "d">>,
    <<"s", "i", "n", "g", "l", "e", " ", "p", "a", "n", "e">>,
    <<"f", "l", "i", "m", "s", "y">>, <<"l", "o", "o", "s", "e">>>>

VULNERABILITY_KEYWORDS ==
  <<<<"w", "i", "n", "d", "o", "w">>, <<"d", "o", "o", "r">>,
    <<"g", "l", "a", "s", "s">>, <<"w", "o", "o", "d", "e", "n">>,
    <<"s", "l", "i", "d", "i", "n", "g">>,
    <<"b", "a", "s", "e", "m", "e", "n", "t">>,
    <<"g", "r", "o", "u", "n", "d", " ", "f", "l", "o", "o", "r">>,
    <<"a", "c", "c", "e", "s", "s", "i", "b", "l", "e">>, <<"l", "o", "w">>,
    <<"e", "n", "t", "r", "y", " ", "p", "o", "i", "n", "t">>>>

Window == <<"w", "i", "n", "d", "o", "w">>
Lock == <<"l", "o", "c", "k">>
Door == <<"d", "o", "o", "r">>
Deadbolt == <<"d", "e", "a", "d", "b", "o", "l", "t">>
Glass == <<"g", "l", "a", "s", "s">>
Tempered == <<"t", "e", "m", "p", "e", "r", "e", "d">>
Reinforced == <<"r", "e", "i", "n", "f", "o", "r", "c", "e", "d">>
Sliding == <<"s", "l", "i", "d", "i", "n", "g">>

\* Math.round(x * 10) / 10 of x = n / 1000, in tenths: half goes up
roundTenths(n) == (n + 50) \div 100

\* a clamp that forgets the lower end
clampAbove(x) == IF x > 100 THEN 100 ELSE x

\* Math.max(1, Math.min(10, x)), in tenths
clamp(x) == IF x < 10 THEN 10 ELSE IF x > 100 THEN 100 ELSE x

riskLevelOf(score) ==
  IF score <= 30 THEN "high" ELSE IF score <= 60 THEN "medium" ELSE "low"

\* const allText = [caption, ...tag names, ...object names], each in lower
\* case, joined with ' '
allTextOf(tags, caption, detectedObjects) ==
  join(<<toLowerCase(caption)>>
       \o [i \in 1..Len(tags) |-> toLowerCase(tags[i].name)]
       \o [i \in 1..Len(detectedObjects) |->
             toLowerCase(detectedObjects[i].name)], <<" ">>)

\* a score that loses a point for an entry point whether or not a security
\* feature was found
scoreUnguardedAlways(allText) ==
  50 + 5 * Len(filter(SECURITY_POSITIVE_KEYWORDS, allText))
     - 7 * Len(filter(SECURITY_NEGATIVE_KEYWORDS, allText))
     - (IF Len(filter(VULNERABILITY_KEYWORDS, allText)) > 0 THEN 10 ELSE 0)

\* the local score when the keyword scans are over, before
\* score = score * locationRiskFactor, in tenths
scoreBeforeFactor(allText) ==
  LET foundPositives == filter(SECURITY_POSITIVE_KEYWORDS, allText)
      foundNegatives == filter(SECURITY_NEGATIVE_KEYWORDS, allText)
      foundVulnerabilities == filter(VULNERABILITY_KEYWORDS, allText)
      unguarded == Len(foundVulnerabilities) > 0 /\ Len(foundPositives) = 0
  IN 50 + 5 * Len(foundPositives) - 7 * Len(foundNegatives)
        - (IF unguarded THEN 10 ELSE 0)

\* calculateRiskScore(tags, caption, detectedObjects, locationRiskFactor)
calculateRiskScore(tags, caption, detectedObjects, locationRiskFactor) ==
  LET allText == allTextOf(tags, caption, detectedObjects)
      foundPositives == filter(SECURITY_POSITIVE_KEYWORDS, allText)
      foundNegatives == filter(SECURITY_NEGATIVE_KEYWORDS, allText)
      foundVulnerabilities == filter(VULNERABILITY_KEYWORDS, allText)
      unguarded == Len(foundVulnerabilities) > 0 /\ Len(foundPositives) = 0
      raw == scoreBeforeFactor(allText)
      score == clamp(roundTenths(raw * locationRiskFactor))
      notes ==
        (IF Len(foundPositives) > 0
         THEN <<[note |-> "Security features detected: ",
                 list |-> join(foundPositives, <<",", " ">>)]>> ELSE <<>>)
        \o (IF Len(foundNegatives) > 0
            THEN <<[note |-> "Potential issues detected: ",
                    list |-> join(foundNegatives, <<",", " ">>)]>> ELSE <<>>)
        \o (IF unguarded
            THEN <<[note |-> "Entry point detected without visible security features",
                    list |-> <<>>]>> ELSE <<>>)
      recs ==
        (IF Len(foundNegatives) > 0
         THEN <<"Consider addressing the identified damage or wear issues">>
         ELSE <<>>)
        \o (IF unguarded
            THEN <<"Consider adding visible security measures to this entry point">>
            ELSE <<>>)
        \o (IF includes(allText, Window) /\ ~includes(allText, Lock)
            THEN <<"Add window locks for enhanced security">> ELSE <<>>)
        \o (IF includes(allText, Door) /\ ~includes(allText, Deadbolt)
            THEN <<"Consider installing a deadbolt for added door security">>
            ELSE <<>>)
        \o (IF includes(allText, Glass) /\ ~includes(allText, Tempered)
               /\ ~includes(allText, Reinforced)
            THEN <<"Consider security film or reinforced glass for vulnerable windows">>
            ELSE <<>>)
        \o (IF includes(allText, Sliding)
            THEN <<"Add a security bar or pin lock to sliding doors/windows">>
            ELSE <<>>)
      generic == notes = <<>>
  IN [riskScore |-> score,
      riskLevel |-> riskLevelOf(score),
      riskNotes |->
        IF generic
        THEN <<[note |-> "Standard security assessment - no significant features or issues detected",
                list |-> <<>>]>>
        ELSE notes,
      recommendations |->
        unique(IF generic
               THEN Append(recs, "Consider a professional security assessment for detailed recommendations")
               ELSE recs)]

\* captions given to calculateRiskScore
CaptionSecured ==
  <<"s", "t", "e", "e", "l", " ", "s", "e", "c", "u", "r", "i", "t", "y",
    " ", "d", "o", "o", "r", " ", "w", "i", "t", "h", " ", "d", "e", "a",
    "d", "b", "o", "l", "t", " ", "a", "n", "d", " ", "c", "a", "m", "e",
    "r", "a">>
CaptionWooden ==
  <<"w", "o", "o", "d", "e", "n", " ", "d", "o", "o", "r", ",", " ", "n",
    "o", " ", "l", "o", "c", "k", " ", "v", "i", "s", "i", "b", "l", "e">>
CaptionDamaged ==
  <<"B", "r", "o", "k", "e", "n", " ", "O", "L", "D", " ", "w", "i", "n",
    "d", "o", "w", ",", " ", "d", "a", "m", "a", "g", "e", "d", " ", "a",
    "n", "d", " ", "w", "o", "r", "n", ",", " ", "r", "o", "t", "t", "e",
    "d", " ", "f", "r", "a", "m", "e", " ", "w", "i", "t", "h", " ", "a",
    " ", "h", "o", "l", "e">>
CaptionFortified ==
  <<"R", "e", "i", "n", "f", "o", "r", "c", "e", "d", " ", "m", "e", "t",
    "a", "l", " ", "g", "a", "t", "e", ",", " ", "a", "l", "a", "r", "m",
    ",", " ", "k", "e", "y", "p", "a", "d", ",", " ", "i", "n", "t", "e",
    "r", "c", "o", "m", ",", " ", "p", "e", "e", "p", "h", "o", "l", "e",
    ",", " ", "m", "o", "t", "i", "o", "n", " ", "s", "e", "n", "s", "o",
    "r", ",", " ", "c", "h", "a", "i", "n", ",", " ", "g", "r", "i", "l",
    "l", "e">>
CaptionPlain ==
  <<"a", " ", "t", "r", "e", "e", " ", "i", "n", " ", "a", " ", "g", "a",
    "r", "d", "e", "n">>
NoCaption == <<>>     \* caption undefined or empty: caption?.toLowerCase() || ''
Captions ==
  {NoCaption, CaptionSecured, CaptionWooden, CaptionDamaged, CaptionFortified,
   CaptionPlain}

\* names of tags and of detected objects (Azure returns them in any case)
TagNames == {<<"W", "i", "n", "d", "o", "w">>, <<"u", "n", "l", "o", "c", "k", "e", "d">>, <<"s", "m", "a", "r", "t", " ", "l", "o", "c", "k">>}
ObjectNames == {<<"S", "l", "i", "d", "i", "n", "g", " ", "d", "o", "o", "r">>, <<"c", "a", "m", "e", "r", "a">>}

\* location risk factors, in hundredths (0.8 lower risk area, 1.2 higher)
LocationRiskFactors == {80, 100, 120, 200}

SeqsUpTo(S, n) == UNION {[1..k -> S] : k \in 0..n}

\* the arguments of a call of calculateRiskScore
ScoreInputs ==
  [tags : SeqsUpTo([name : TagNames, confidence : {90}], MaxTags),
   caption : Captions,
   detectedObjects : SeqsUpTo([name : ObjectNames, confidence : {90}], MaxObjects),
   locationRiskFactor : LocationRiskFactors]

\* a call of calculateRiskScore is about to be made with these arguments
InitScore ==
  /\ sessions = [k \in {} |-> 0]
  /\ now = 0
  /\ nextImageId = 1
  /\ reqs = EmptyBag
  /\ \E in \in ScoreInputs :
       last = [op |-> "call calculateRiskScore", ret |-> "none",
               evicted |-> FALSE, args |-> in]

CalculateRiskScore ==
  /\ last.op = "call calculateRiskScore"
  /\ last' = [op |-> "calculateRiskScore", ret |-> "returned",
              evicted |-> FALSE, args |-> last.args,
              analysis |-> calculateRiskScore(last.args.tags, last.args.caption,
                                              last.args.detectedObjects,
                                              last.args.locationRiskFactor),
              scoreBeforeFactor |->
                scoreBeforeFactor(allTextOf(last.args.tags, last.args.caption,
                                            last.args.detectedObjects))]
  /\ UNCHANGED <<sessions, now, nextImageId, reqs>>

NextScore == CalculateRiskScore

SpecScore == InitScore /\ [][NextScore]_vars

(* ---------------- openai.ts: the report of the model ------------------- *)
\* A JSON value is a record with its type .t and, but for undefined and
\* null, its value .v: a number, a string, a sequence of JSON values, or a
\* function from property names to JSON values.  The free-text properties
\* of a report (summary, date, notes, recommendation, conclusion) go
\* through String() or || only and are left out.
Undefined == [t |-> "undefined"]
Null == [t |-> "null"]
Num(n) == [t |-> "number", v |-> n]
Str(str) == [t |-> "string", v |-> str]
Arr(seq) == [t |-> "array", v |-> seq]
Obj(f) == [t |-> "object", v |-> f]

\* value.name: undefined when the property is missing or the value is a
\* number or a string; on undefined and null it throws a TypeError, which
\* the callers test with Nullish first
Nullish(value) == value.t \in {"undefined", "null"}
Get(value, name) ==
  IF value.t = "object" /\ name \in DOMAIN value.v THEN value.v[name]
  ELSE Undefined

\* value?.name
GetOpt(value, name) == IF Nullish(value) THEN Undefined ELSE Get(value, name)

\* JavaScript truthiness
Truthy(value) ==
  CASE value.t \in {"undefined", "null"} -> FALSE
    [] value.t = "number" -> value.v # 0
    [] value.t = "string" -> value.v # ""
    [] OTHER -> TRUE

ExposureRisks == {"Very Low", "Low", "Medium", "High", "Very High"}
ConfidenceLevels == {"High", "Medium", "Low"}
EffortCostLevels == {"Low", "Medium", "High"}

validateExposureRisk(value) ==
  IF value.t = "string" /\ value.v \in ExposureRisks THEN value.v ELSE "Medium"

validateConfidence(value) ==
  IF value.t = "string" /\ value.v \in ConfidenceLevels THEN value.v ELSE "Medium"

validateEffortCost(value) ==
  IF value.t = "string" /\ value.v \in EffortCostLevels THEN value.v ELSE "Medium"

\* (value || []).map(f): the value must have a map method, and f reads
\* properties of each element, which throws on null
Mappable(value) ==
  \/ ~Truthy(value)
  \/ /\ value.t = "array"
     /\ \A i \in 1..Len(value.v) : ~Nullish(value.v[i])
Elements(value) == IF Truthy(value) THEN value.v ELSE <<>>

\* Number(value) of the values the inputs hold: .nan tells NaN, .v is the
\* number otherwise; a string converts when it is a decimal numeral, "" and
\* null convert to 0, undefined and objects to NaN
Numerals == [str \in {"1", "2"} |-> IF str = "1" THEN 1 ELSE 2]
Number(value) ==
  CASE value.t = "number" -> [nan |-> FALSE, v |-> value.v]
    [] value.t = "string" /\ value.v = "" -> [nan |-> FALSE, v |-> 0]
    [] value.t = "string" /\ value.v \in DOMAIN Numerals ->
         [nan |-> FALSE, v |-> Numerals[value.v]]
    [] value.t = "null" -> [nan |-> FALSE, v |-> 0]
    [] OTHER -> [nan |-> TRUE, v |-> 0]

\* Number(rec.priority) || index + 1 (index is the 1-based position here)
Priority(value, index) ==
  LET n == Number(value) IN IF n.nan \/ n.v = 0 THEN index ELSE n.v

\* the object literal of parseSecurityReport; .ok is false when building
\* it throws
buildReport(parsed) ==
  LET areas == Get(parsed, "areas")
      recs == Get(parsed, "prioritizedRecommendations")
      header == Get(parsed, "header")
      limitations == Get(parsed, "limitations")
  IN
  IF ~Mappable(areas) \/ ~Mappable(recs) THEN [ok |-> FALSE]
  ELSE
  [ok |-> TRUE,
   report |->
     [header |->
        [overallExposureRisk |->
           validateExposureRisk(GetOpt(header, "overallExposureRisk")),
         overallConfidence |->
           validateConfidence(GetOpt(header, "overallConfidence")),
         areasAnalyzed |-> IF areas.t = "array" THEN Len(areas.v) ELSE 0],
      areas |->
        [i \in 1..Len(Elements(areas)) |->
           LET area == Elements(areas)[i] IN
           [exposureRisk |-> validateExposureRisk(Get(area, "exposureRisk")),
            confidence |-> validateConfidence(Get(area, "confidence")),
            effort |-> validateEffortCost(Get(area, "effort")),
            cost |-> validateEffortCost(Get(area, "cost"))]],
      prioritizedRecommendations |->
        [i \in 1..Len(Elements(recs)) |->
           LET rec == Elements(recs)[i] IN
           [effort |-> validateEffortCost(Get(rec, "effort")),
            cost |-> validateEffortCost(Get(rec, "cost")),
            priority |-> Priority(Get(rec, "priority"), i)]],
      limitations |-> IF limitations.t = "array" THEN limitations.v ELSE <<>>]]

\* a parse whose catch lets the exception through
parseWithoutCatch(response) ==
  IF response.match = "none" THEN [threw |-> FALSE, ret |-> "null"]
  ELSE IF response.match = "invalid" THEN [threw |-> TRUE, ret |-> "none"]
  ELSE LET b == buildReport(response.parsed) IN
       IF b.ok THEN [threw |-> FALSE, ret |-> "report", report |-> b.report]
       ELSE [threw |-> TRUE, ret |-> "none"]

\* parseSecurityReport: of the text, .match tells whether /\{[\s\S]*\}/
\* matches and JSON.parse accepts the match ("none", "invalid", "json"), and
\* .parsed is the object that JSON.parse returns; whatever is thrown inside
\* the try is caught and null returned
parseSecurityReport(response) ==
  IF response.match = "none" THEN [threw |-> FALSE, ret |-> "null"]
  ELSE IF response.match = "invalid" THEN [threw |-> FALSE, ret |-> "null"]
  ELSE LET b == buildReport(response.parsed) IN
       IF b.ok THEN [threw |-> FALSE, ret |-> "report", report |-> b.report]
       ELSE [threw |-> FALSE, ret |-> "null"]

\* what a text may hold under "areas": nothing, values without a map
\* method, and arrays of nulls, numbers and objects with good and bad levels
AreaElements ==
  {Null, Num(3),
   Obj([k \in {} |-> Undefined]),
   Obj([exposureRisk |-> Str("Very High"), confidence |-> Str("Low"),
        effort |-> Str("High"), cost |-> Str("Low")]),
   Obj([exposureRisk |-> Str("Extreme"), confidence |-> Str("Very High"),
        effort |-> Str("Very Low"), cost |-> Num(3)]),
   Obj([exposureRisk |-> Null, confidence |-> Str(""),
        effort |-> Arr(<<>>), cost |-> Undefined])}
AreasInputs ==
  {Undefined, Null, Str("none"), Num(5), Obj([k \in {} |-> Undefined])}
  \cup {Arr(a) : a \in SeqsUpTo(AreaElements, MaxItems)}

RecElements ==
  {Null,
   Obj([effort |-> Str("Low"), cost |-> Str("High"), priority |-> Num(2)]),
   Obj([effort |-> Str("Very High"), cost |-> Num(1), priority |-> Num(0)])}
RecsInputs ==
  {Undefined, Str("none")} \cup {Arr(a) : a \in SeqsUpTo(RecElements, MaxItems)}

HeaderInputs ==
  {Undefined, Null, Str("High"),
   Obj([overallExposureRisk |-> Str("Very Low"), overallConfidence |-> Str("High")]),
   Obj([overallExposureRisk |-> Str("Critical"), overallConfidence |-> Str("Very High")]),
   Obj([overallExposureRisk |-> Num(1)])}

LimitationsInputs ==
  {Undefined, Str("none"), Arr(<<>>), Arr(<<Str("one photo only")>>)}

\* what a text may hold as a recommendation: a priority that is a number,
\* a numeral in a string, a word, or absent
RankedElements ==
  {Obj([effort |-> Str("Low"), cost |-> Str("Low"), priority |-> Num(1)]),
   Obj([effort |-> Str("Low"), cost |-> Str("High"), priority |-> Num(2)]),
   Obj([effort |-> Str("High"), cost |-> Str("High"), priority |-> Str("2")]),
   Obj([effort |-> Str("Medium"), cost |-> Str("Low"), priority |-> Str("urgent")]),
   Obj([effort |-> Str("Medium"), cost |-> Str("Medium")])}
RankedInputs == {Arr(a) : a \in SeqsUpTo(RankedElements, MaxRecs)}

\* the texts: without braces, with braces that are not JSON, and JSON
\* objects with any of the values above under the properties that are read
Responses ==
  {[match |-> "none"], [match |-> "invalid"]}
  \cup {[match |-> "json",
         parsed |-> Obj([header |-> h, areas |-> a,
                         prioritizedRecommendations |-> r, limitations |-> l])] :
          h \in HeaderInputs, a \in AreasInputs, r \in RecsInputs,
          l \in LimitationsInputs}

\* a call of parseSecurityReport is about to be made with this text
InitParse ==
  /\ sessions = [k \in {} |-> 0]
  /\ now = 0
  /\ nextImageId = 1
  /\ reqs = EmptyBag
  /\ \E response \in Responses :
       last = [op |-> "call parseSecurityReport", ret |-> "none",
               evicted |-> FALSE, response |-> response]

ParseSecurityReport ==
  /\ last.op = "call parseSecurityReport"
  /\ last' = [op |-> "parseSecurityReport", evicted |-> FALSE,
              response |-> last.response]
             @@ parseSecurityReport(last.response)
  /\ UNCHANGED <<sessions, now, nextImageId, reqs>>

NextParse == ParseSecurityReport

SpecParse == InitParse /\ [][NextParse]_vars

\* a call of parseSecurityReport is about to be made with a text that holds
\* a list of recommendations
InitRanked ==
  /\ sessions = [k \in {} |-> 0]
  /\ now = 0
  /\ nextImageId = 1
  /\ reqs = EmptyBag
  /\ \E h \in HeaderInputs, r \in RankedInputs :
       last = [op |-> "call parseSecurityReport", ret |-> "none",
               evicted |-> FALSE,
               response |->
                 [match |-> "json",
                  parsed |-> Obj([header |-> h, areas |-> Undefined,
                                  prioritizedRecommendations |-> r,
                                  limitations |-> Undefined])]]

SpecRanked == InitRanked /\ [][NextParse]_vars

(* --------------- azure-vision.ts: the overall risk score --------------- *)
\* a weighting that counts every analysis once
weightsEqual(riskLevel) == 2

\* const weights = { high: 2, medium: 1.5, low: 1 }, counted in halves
weights(riskLevel) ==
  CASE riskLevel = "high" -> 4
    [] riskLevel = "medium" -> 3
    [] riskLevel = "low" -> 2

RECURSIVE weightedSum(_)
\* weightedSum += analysis.riskScore * weight, in tenths times halves
weightedSum(analyses) ==
  IF analyses = <<>> THEN 0
  ELSE Head(analyses).riskScore * weights(Head(analyses).riskLevel)
       + weightedSum(Tail(analyses))

RECURSIVE totalWeight(_)
\* totalWeight += weight, in halves
totalWeight(analyses) ==
  IF analyses = <<>> THEN 0
  ELSE weights(Head(analyses).riskLevel) + totalWeight(Tail(analyses))

\* Math.round(x * 10) / 10 of x = sum / weight, in tenths: where x * 10 is
\* exactly halfway between two integers, the floating-point quotient can lie
\* on either side of the half, so both neighbours are possible results
roundQuotient(sum, weight) ==
  LET up == (2 * sum + weight) \div (2 * weight) IN
  IF (2 * sum + weight) % (2 * weight) = 0 THEN {up - 1, up} ELSE {up}

\* calculateOverallRiskScore: the set of values it can return, in tenths
calculateOverallRiskScore(analyses) ==
  IF Len(analyses) = 0 THEN {50}
  ELSE roundQuotient(weightedSum(analyses), totalWeight(analyses))

\* the analyses given to it: riskScore in tenths, any riskLevel
OverallScores == {10, 20, 47, 90}
OverallInputs ==
  SeqsUpTo([riskScore : OverallScores, riskLevel : {"high", "medium", "low"}],
           MaxOverall)

\* a call of calculateOverallRiskScore is about to be made with this list
InitOverall ==
  /\ sessions = [k \in {} |-> 0]
  /\ now = 0
  /\ nextImageId = 1
  /\ reqs = EmptyBag
  /\ \E analyses \in OverallInputs :
       last = [op |-> "call calculateOverallRiskScore", ret |-> "none",
               evicted |-> FALSE, analyses |-> analyses]

CalculateOverallRiskScore ==
  /\ last.op = "call calculateOverallRiskScore"
  /\ \E score \in calculateOverallRiskScore(last.analyses) :
       last' = [op |-> "calculateOverallRiskScore", ret |-> "returned",
                evicted |-> FALSE, analyses |-> last.analyses, score |-> score]
  /\ UNCHANGED <<sessions, now, nextImageId, reqs>>

NextOverall == CalculateOverallRiskScore

SpecOverall == InitOverall /\ [][NextOverall]_vars

TypeOK ==
  /\ DOMAIN sessions \subseteq SessionIds
  /\ now \in 0..MaxTime
  /\ nextImageId \in 1..(MaxImages + MaxGroupLen + 2)
  /\ \A k \in DOMAIN sessions :
       /\ sessions[k].analysisStatus \in Statuses
       /\ \A i \in 1..Len(sessions[k].images) :
            sessions[k].images[i].analysisStatus \in Statuses

(* ------------------------------ claims --------------------------------- *)
\* the index of the image with this id in a list of images with distinct ids
Pos(images, imageId) == CHOOSE i \in 1..Len(images) : images[i].id = imageId

\* the steps with which an analyze request that passed validation ends:
\* at once when nothing is pending, after the last load when no buffer
\* loaded, or after the scoring
AnalyzeEnds ==
  /\ last'.op = "analyze" /\ last'.ret = "200"
  /\ \/ /\ reqs' = reqs
        /\ \E sid \in RouteSessionIds : AnalyzeBegin(sid, TRUE)
     \/ /\ BagCardinality(reqs') < BagCardinality(reqs)
        /\ \/ \E q \in InFlight("analyze"), o \in LoadOutcomes :
                AnalyzeLoaded(q, o)
           \/ \E q \in InFlight("analyze"), o \in ScoreOutcomes :
                AnalyzeScored(q, o)

\* the ids of the batch of the request that just ended whose buffer loaded
EndedLoaded == Range(last.pending) \ last.failed

StatusOf(images, imageId) == images[Pos(images, imageId)].analysisStatus

Live(id) == id \in DOMAIN sessions /\ now <= sessions[id].expiresAt

\* where an image is placed in a list of groups: <<i, 0>> as the primary
\* image of group i, <<i, j>> as the j-th related image of group i
Placements(groups, m) ==
  {<<i, 0>> : i \in {k \in 1..Len(groups) : groups[k].primaryImage = m}}
  \cup UNION {{<<i, j>> : j \in {k \in 1..Len(groups[i].relatedImages) :
                                    groups[i].relatedImages[k] = m}}
              : i \in 1..Len(groups)}

\* C3: the groups returned for a list of images with distinct ids hold each
\* image of the list at exactly one place (primary image of one group or
\* related image of one group) and no other image; a group whose primary
\* image has a parent is a singleton.
C3_EachImageInOneGroup ==
  [][\A sid \in RouteSessionIds :
        (GetResults(sid) /\ last'.ret = "200") =>
          LET images == sessions[sid].images
              groups == last'.groupedResults
          IN /\ \A m \in Range(images) : Cardinality(Placements(groups, m)) = 1
             /\ \A i \in 1..Len(groups) :
                  /\ groups[i].primaryImage \in Range(images)
                  /\ Range(groups[i].relatedImages) \subseteq Range(images)
                  /\ groups[i].primaryImage.parentImageId # NoParent
                       => groups[i].relatedImages = <<>>]_vars

\* the results of a list of three images: a primary image with a related
\* image, and an orphan
C3_Witness ==
  /\ last.op = "GET results" /\ last.ret = "200"
  /\ LET groups == last.groupedResults IN
     /\ Len(groups) = 2
     /\ \E i, j \in 1..Len(groups) :
          /\ groups[i].primaryImage.parentImageId = NoParent
          /\ Len(groups[i].relatedImages) = 1
          /\ groups[j].primaryImage.parentImageId # NoParent

\* C4: get(id) returns the session exactly while it is stored and
\* now <= expiresAt, returning it leaves the store as it was, and a get after
\* expiresAt removes the session, so that the store no longer holds the id
\* (and a get of an id the store does not hold returns not-found).
C4_GetHonoursExpiry ==
  [][\A id \in SessionIds : StoreGet(id) =>
        /\ (last'.ret = "found") <=> Live(id)
        /\ Live(id) => sessions' = sessions
        /\ ~Live(id) => id \notin DOMAIN sessions'
        /\ \A o \in SessionIds \ {id} :
             (o \in DOMAIN sessions') <=> (o \in DOMAIN sessions)]_vars

\* a get, issued 25h after the clock started, found a session past its
\* expiresAt, evicted it and returned not-found
C4_Witness ==
  /\ last.op = "get" /\ last.ret = "undefined" /\ last.evicted
  /\ now = SESSION_EXPIRY_HOURS + 1

\* C5: create(id) on an id the store already holds leaves that session as
\* it was (images, location, analysisStatus, report, createdAt, expiresAt).
C5_CreateKeepsExisting ==
  [][\A id \in SessionIds :
        (StoreCreate(id) /\ id \in DOMAIN sessions) =>
          (id \in DOMAIN sessions' /\ sessions'[id] = sessions[id])]_vars
ImagesIn(id) == IF id \in DOMAIN sessions THEN sessions[id].images ELSE <<>>

\* C1: in every session no image is its own parent and no image that has a
\* parentImageId is the parentImageId of another image (chains of depth <= 1).
C1_ParentDepthAtMostOne ==
  \A id \in DOMAIN sessions :
    \A m \in Range(sessions[id].images) :
      /\ m.parentImageId # m.id
      /\ m.parentImageId # NoParent =>
           \A c \in Range(sessions[id].images) : c.parentImageId # m.id
\* C2: removeImage(sessionId, imageId), as the DELETE route calls it on a
\* live session, removes the named image and every image whose parentImageId
\* equals it and nothing else; the images that stay keep their fields and
\* their order (so removing a child leaves its primary and its siblings).
C2_RemoveCascadesOneLevel ==
  [][\A q \in InFlight("delete") :
        (DeleteFinish(q) /\ Live(q.sid)) =>
          LET before == sessions[q.sid].images
              after == sessions'[q.sid].images
              gone == {m \in Range(before) :
                         m.id = q.img \/ m.parentImageId = q.img}
          IN /\ Range(after) = Range(before) \ gone
             /\ Len(after) = Cardinality(Range(before) \ gone)
             /\ \A i, j \in 1..Len(after) :
                  i < j => Pos(before, after[i].id) < Pos(before, after[j].id)
             /\ sessions' = [sessions EXCEPT ![q.sid].images = after]]_vars

\* a delete of a primary image took the primary and its two children
C2_Witness ==
  /\ last.op = "delete" /\ last.ret = "200"
  /\ Cardinality(last.removed) = 3
  /\ \A m \in last.removed :
       \/ m.id = last.removedImageId /\ m.parentImageId = NoParent
       \/ m.id # last.removedImageId /\ m.parentImageId = last.removedImageId

\* a delete of a child image left its primary and its sibling in the session
C2_WitnessChild ==
  /\ last.op = "delete" /\ last.ret = "200"
  /\ \E m \in last.removed :
       /\ last.removed = {m}
       /\ \E a, b \in Range(ImagesIn("s1")) :
            /\ a.id = m.parentImageId /\ b.parentImageId = a.id
\* C6: POST /session with the id of a live session answers 200 and leaves
\* the whole store as it was; with an id that is absent or expired it answers
\* 201 and stores a fresh session under that id.
C6_PostSessionIdempotent ==
  [][\A id \in SessionIds : PostSession(id) =>
        /\ Live(id) => (sessions' = sessions /\ last'.ret = "200")
        /\ ~Live(id) => /\ last'.ret = "201"
                        /\ id \in DOMAIN sessions'
                        /\ sessions'[id] = NewSession(now)]_vars

\* a POST /session found the live session, with its image and its status
C6_Witness ==
  /\ last.op = "POST session" /\ last.ret = "200"
  /\ \E id \in DOMAIN sessions :
       /\ Len(sessions[id].images) > 0
       /\ sessions[id].analysisStatus = "complete"

\* C7: when an analyze request that passed validation ends and the session
\* is still in the store, the session is complete (and holds the report)
\* exactly if at least one buffer loaded and the scoring returned a report;
\* otherwise it is error and holds no report.
C7_FinalSessionStatus ==
  [][(AnalyzeEnds /\ last'.sid \in DOMAIN sessions') =>
        LET s == sessions'[last'.sid]
            produced == EndedLoaded' # {} /\ last'.scored = "report"
        IN /\ (s.analysisStatus = "complete") <=> produced
           /\ produced => s.securityReport = Report
           /\ ~produced => (s.analysisStatus = "error"
                             /\ s.securityReport = NoReport)]_vars

\* an analyze request ended complete with a report although one image of
\* its batch had failed to load
C7_Witness ==
  /\ last.op = "analyze" /\ last.ret = "200" /\ last.scored = "report"
  /\ last.failed # {} /\ EndedLoaded # {}
  /\ last.sid \in DOMAIN sessions
  /\ sessions[last.sid].analysisStatus = "complete"
  /\ sessions[last.sid].securityReport = Report
\* C8: when the scoring call of a batch is over, every image of the batch
\* whose buffer loaded (and that the session still holds) has one and the
\* same status: complete if the call returned a report, error if it returned
\* null or threw.
C8_LoadedImagesShareOutcome ==
  [][\A q \in InFlight("analyze"), o \in ScoreOutcomes :
        (AnalyzeScored(q, o) /\ q.sid \in DOMAIN sessions') =>
          LET images == sessions'[q.sid].images
              loaded == (Range(q.pending) \ q.failed) \cap ImageIdsOf(images)
          IN \A imageId \in loaded :
               StatusOf(images, imageId) =
                 (IF o = "report" THEN "complete" ELSE "error")]_vars

\* a batch of two loaded images ended with a report, both complete
C8_Witness ==
  /\ last.op = "analyze" /\ last.ret = "200" /\ last.scored = "report"
  /\ Cardinality(EndedLoaded) >= 2
  /\ last.sid \in DOMAIN sessions
  /\ \A imageId \in EndedLoaded :
       /\ imageId \in ImageIdsOf(sessions[last.sid].images)
       /\ StatusOf(sessions[last.sid].images, imageId) = "complete"

\* a batch of two loaded images ended without a report, both error
C8_WitnessFailed ==
  /\ last.op = "analyze" /\ last.ret = "200"
  /\ last.scored \in {"null", "throw"}
  /\ Cardinality(EndedLoaded) >= 2
  /\ last.sid \in DOMAIN sessions
  /\ \A imageId \in EndedLoaded :
       /\ imageId \in ImageIdsOf(sessions[last.sid].images)
       /\ StatusOf(sessions[last.sid].images, imageId) = "error"

\* C9: a failed load (null buffer or exception) of one image of a batch
\* sets that image to error and touches no other image (but for the next
\* image of the batch, which goes to analyzing); the request goes on with the
\* image among its failed ones, to the next load or, when a buffer loaded,
\* to the scoring; the failed images are not among the buffers of the
\* scoring, and the end of the scoring leaves them as they are.
C9_LoadFailureIsLocal ==
  [][\A q \in InFlight("analyze") :
        /\ \A o \in LoadOutcomes \ {"buffer"} : AnalyzeLoaded(q, o) =>
             LET imageId == q.pending[q.idx]
                 more == q.idx < Len(q.pending)
                 next == [q EXCEPT !.idx = q.idx + 1,
                                   !.failed = q.failed \cup {imageId}]
             IN
             /\ (more \/ Range(q.pending) \ next.failed # {})
                  => next \in BagToSet(reqs')
             /\ imageId \notin Range(SentIds(LoadedIds(next)))
             /\ (q.sid \in DOMAIN sessions /\ q.sid \in DOMAIN sessions') =>
                  LET old == sessions[q.sid].images
                      new == sessions'[q.sid].images
                  IN /\ Len(new) = Len(old)
                     /\ \A i \in 1..Len(old) :
                          IF old[i].id = imageId
                          THEN new[i] = [old[i] EXCEPT !.analysisStatus = "error"]
                          ELSE IF more /\ old[i].id = q.pending[q.idx + 1]
                          THEN new[i] = [old[i] EXCEPT !.analysisStatus = "analyzing"]
                          ELSE new[i] = old[i]
        /\ \A o \in ScoreOutcomes : AnalyzeScored(q, o) =>
             /\ q.failed \cap Range(SentIds(LoadedIds(q))) = {}
             /\ (q.sid \in DOMAIN sessions /\ q.sid \in DOMAIN sessions') =>
                  LET old == sessions[q.sid].images
                      new == sessions'[q.sid].images
                  IN /\ Len(new) = Len(old)
                     /\ \A i \in 1..Len(old) :
                          old[i].id \in q.failed => new[i] = old[i]]_vars

\* a batch in which one image failed to load ended with a report: the failed
\* image is error, the image that loaded is complete
C9_Witness ==
  /\ last.op = "analyze" /\ last.ret = "200" /\ last.scored = "report"
  /\ last.sid \in DOMAIN sessions
  /\ LET images == sessions[last.sid].images IN
     /\ \E imageId \in last.failed \cap ImageIdsOf(images) :
          StatusOf(images, imageId) = "error"
     /\ \E imageId \in EndedLoaded \cap ImageIdsOf(images) :
          StatusOf(images, imageId) = "complete"

\* the batch an AnalyzeBegin step takes up: the pending list of the request
\* it suspends, nothing when it runs to its end
TakenUp ==
  IF reqs' = reqs THEN {}
  ELSE Range((CHOOSE r \in BagToSet(reqs') :
                reqs' = reqs (+) SetToBag({r})).pending)

\* C10: an analyze request on a session that holds images of a failed batch
\* takes up the images that are pending together with those that are error,
\* and none that is complete.
C10_RetryTakesPendingAndFailed ==
  [][\A sid \in RouteSessionIds :
        (/\ AnalyzeBegin(sid, TRUE)
         /\ Live(sid)
         /\ \E m \in Range(sessions[sid].images) : m.analysisStatus = "error")
        => TakenUp = {m.id : m \in {x \in Range(sessions[sid].images) :
                               x.analysisStatus \in {"pending", "error"}}}]_vars
\* C11: whatever the interleaving of the uploads to it, a session never
\* holds more images than MAX_IMAGES_PER_SESSION.
C11_ImagesWithinCap ==
  \A id \in DOMAIN sessions :
    Len(sessions[id].images) <= MAX_IMAGES_PER_SESSION
\* C12: a session has at most one analyze batch in progress: no two analyze
\* requests for the same session are between their first load and their
\* end at the same time, hence no image is in the batches of two of them.
C12_OneBatchPerSession ==
  \A q \in InFlight("analyze") :
    /\ CopiesIn(q, reqs) = 1
    /\ \A r \in InFlight("analyze") : r.sid = q.sid => r = q
\* C13: overlapping add-image calls, also with updateSession,
\* updateImageInSession and removeImageFromSession calls in between, lose
\* nothing: the add of an upload puts its image behind the images the
\* session holds, which stay as they are, as do the other fields of the
\* session; updateSession and updateImageInSession keep every image in the
\* list; only removeImageFromSession takes images out, the one it names and
\* those that name that one as their parent.
C13_NoLostImage ==
  [][\A sid \in RouteSessionIds :
        (Live(sid) /\ sid \in DOMAIN sessions') =>
          LET old == sessions[sid].images
              new == sessions'[sid].images
          IN
          /\ \A q \in InFlight("upload") : UploadFinish(q, TRUE) =>
               /\ new = Append(old, NewImage(nextImageId, q.parent))
               /\ sessions'[sid] = [sessions[sid] EXCEPT !.images = new]
          /\ \A u \in SessionUpdates : StoreUpdate(sid, u) => new = old
          /\ \A i \in 1..MaxAdds, u \in ImageUpdates :
               StoreUpdateImage(sid, i, u) =>
                 /\ [k \in 1..Len(new) |-> new[k].id]
                      = [k \in 1..Len(old) |-> old[k].id]
                 /\ sessions'[sid] = [sessions[sid] EXCEPT !.images = new]
          /\ \A i \in 1..MaxAdds : StoreRemoveImage(sid, i) =>
               ImageIdsOf(new) =
                 {m.id : m \in {x \in Range(old) :
                                  x.id # i /\ x.parentImageId # i}}]_vars

\* two uploads have added their images while a third is in flight, after an
\* updateSession and an updateImageInSession: both images are in the list,
\* with the status that the update gave to one of them
C13_Witness ==
  /\ last.op = "upload" /\ last.ret = "201"
  /\ BagCardinality(reqs) >= 1
  /\ \E sid \in DOMAIN sessions :
       /\ Len(sessions[sid].images) >= 2
       /\ sessions[sid].analysisStatus = "complete"
       /\ \E m \in Range(sessions[sid].images) : m.analysisStatus = "complete"
\* C14: an analyze request for a live session without images is answered
\* 400 and changes nothing: the store (status, report and images of the
\* session included) is the same after it, and no batch is started.
C14_AnalyzeWithoutImagesRejected ==
  [][\A sid \in RouteSessionIds, c \in BOOLEAN :
        (AnalyzeBegin(sid, c) /\ Live(sid) /\ Len(sessions[sid].images) = 0) =>
          /\ sessions' = sessions
          /\ reqs' = reqs
          /\ last' = Rejected("analyze", "400", "No images to analyze")]_vars

\* an analyze request was turned down for want of images, the session is
\* still pending
C14_Witness ==
  /\ last = Rejected("analyze", "400", "No images to analyze")
  /\ \E sid \in DOMAIN sessions :
       /\ Live(sid)
       /\ sessions[sid].images = <<>>
       /\ sessions[sid].analysisStatus = "pending"
\* C15: in every state that the routes reach, a relate request on a live
\* session that is turned down changes
\* nothing in the store: it is answered 400 when the image is named as its
\* own parent or the parent is itself a related image, 404 when the image or
\* the parent is not in the session, and every field of every image is as it
\* was; whatever is not answered 200 leaves the store alone.
C15_RejectedRelateChangesNothing ==
  \A sid \in RouteSessionIds : Live(sid) =>
    \A imageId \in 1..MaxImages, parent \in 1..MaxImages :
      LET r == relate(sessions, sid, imageId, parent, now)
          images == sessions[sid].images
          ids == ImageIdsOf(images)
          missing == imageId \notin ids \/ parent \notin ids
          refused == ~missing /\ (imageId = parent
                       \/ images[Pos(images, parent)].parentImageId # NoParent)
      IN /\ missing => (r.response.ret = "404" /\ r.store = sessions)
         /\ refused => (r.response.ret = "400" /\ r.store = sessions)
         /\ r.response.ret # "200" => r.store = sessions

\* the last relate named the image as its own parent and was turned down;
\* the image still has no parent
C15_Witness ==
  /\ last = Rejected("relate", "400", "Cannot link image to itself")
  /\ \E sid \in DOMAIN sessions :
       \E m \in Range(sessions[sid].images) : m.parentImageId = NoParent

\* the last relate named a related image as the parent and was turned down
C15_WitnessChildParent ==
  /\ last = Rejected("relate", "400",
                     "Cannot link to an image that is already a related image")
  /\ \E sid \in DOMAIN sessions :
       \E m \in Range(sessions[sid].images) : m.parentImageId # NoParent

\* the last relate named an image or a parent that the session does not hold
C15_WitnessMissing ==
  /\ last.op = "relate" /\ last.ret = "404"
  /\ last.error \in {"Child image not found", "Parent image not found"}
\* C16: whatever the caption, the tags, the detected objects and the
\* location risk factor, the riskScore that calculateRiskScore returns lies
\* between 1 and 10, and the riskLevel is high up to 3, medium above 3 up to
\* 6 and low above 6.
C16_ScoreInRangeAndLevelConsistent ==
  last.op = "calculateRiskScore" =>
    LET a == last.analysis IN
    /\ a.riskScore >= 10 /\ a.riskScore <= 100
    /\ a.riskLevel = "high" <=> a.riskScore <= 30
    /\ a.riskLevel = "medium" <=> (a.riskScore > 30 /\ a.riskScore <= 60)
    /\ a.riskLevel = "low" <=> a.riskScore > 60

\* a call whose running score went below 1 and was clamped to 1
C16_Witness ==
  /\ last.op = "calculateRiskScore"
  /\ last.args.caption = CaptionDamaged
  /\ last.analysis.riskScore = 10 /\ last.analysis.riskLevel = "high"

\* a call whose running score went above 10 and was clamped to 10
C16_WitnessHigh ==
  /\ last.op = "calculateRiskScore"
  /\ last.args.caption = CaptionFortified /\ last.args.locationRiskFactor = 200
  /\ last.analysis.riskScore = 100 /\ last.analysis.riskLevel = "low"
\* C17: parseSecurityReport throws on no text; it returns null, or a report
\* whose exposure risks are among the 5 levels, whose confidences, efforts
\* and costs are among their 3 levels, and whose areas, prioritized
\* recommendations and limitations are lists.
C17_ParseNeverThrows ==
  last.op = "parseSecurityReport" =>
    /\ ~last.threw
    /\ last.ret \in {"null", "report"}
    /\ last.ret = "report" =>
         LET r == last.report IN
         /\ r.header.overallExposureRisk \in ExposureRisks
         /\ r.header.overallConfidence \in ConfidenceLevels
         /\ r.areas \in Seq([exposureRisk : ExposureRisks,
                              confidence : ConfidenceLevels,
                              effort : EffortCostLevels,
                              cost : EffortCostLevels])
         /\ DOMAIN r.prioritizedRecommendations
              = 1..Len(r.prioritizedRecommendations)
         /\ \A i \in DOMAIN r.prioritizedRecommendations :
              /\ r.prioritizedRecommendations[i].effort \in EffortCostLevels
              /\ r.prioritizedRecommendations[i].cost \in EffortCostLevels
         /\ DOMAIN r.limitations = 1..Len(r.limitations)

\* a text whose JSON names levels outside the enums gave a report
C17_Witness ==
  /\ last.op = "parseSecurityReport" /\ last.ret = "report"
  /\ Get(last.response.parsed, "header")
       = Obj([overallExposureRisk |-> Str("Critical"),
              overallConfidence |-> Str("Very High")])
  /\ last.report.header.overallExposureRisk = "Medium"
  /\ Len(last.report.areas) > 0

\* a text whose JSON makes the building of the report throw gave null
C17_WitnessNull ==
  /\ last.op = "parseSecurityReport" /\ last.ret = "null"
  /\ last.response.match = "json"
  /\ Get(last.response.parsed, "areas") = Str("none")

\* the call of the example: the caption alone, factor 1
SecuredCall ==
  /\ last.op = "calculateRiskScore"
  /\ last.args = [tags |-> <<>>, caption |-> CaptionSecured,
                  detectedObjects |-> <<>>, locationRiskFactor |-> 100]

\* the number of keywords that a note lists: one more than its commas
Listed(note) ==
  IF note.list = <<>> THEN 0
  ELSE 1 + Cardinality({i \in 1..Len(note.list) : note.list[i] = ","})

GenericNote ==
  [note |-> "Standard security assessment - no significant features or issues detected",
   list |-> <<>>]

\* C18 as the claim states it: calculateRiskScore on the caption "steel
\* security door with deadbolt and camera", no tags, no objects, factor 1,
\* finds three positive keywords and returns 6.5, low, with one note that
\* lists the three and without the generic note.
C18_ThreeMatchesScore65 ==
  SecuredCall =>
    LET a == last.analysis IN
    /\ a.riskScore = 65 /\ a.riskLevel = "low"
    /\ Len(a.riskNotes) = 1
    /\ a.riskNotes[1].note = "Security features detected: "
    /\ Listed(a.riskNotes[1]) = 3
    /\ GenericNote \notin Range(a.riskNotes)

\* C18, amended: on that call calculateRiskScore finds five positive
\* keywords (deadbolt, security, steel, camera, and bolt inside deadbolt)
\* and returns 7.5, low, with one note that lists the five and without the
\* generic note.
C18_FiveMatchesScore75 ==
  SecuredCall =>
    LET a == last.analysis IN
    /\ a.riskScore = 75 /\ a.riskLevel = "low"
    /\ Len(a.riskNotes) = 1
    /\ a.riskNotes[1].note = "Security features detected: "
    /\ a.riskNotes[1].list =
         <<"d", "e", "a", "d", "b", "o", "l", "t", ",", " ", "s", "e", "c", "u",
           "r", "i", "t", "y", ",", " ", "s", "t", "e", "e", "l", ",", " ", "c",
           "a", "m", "e", "r", "a", ",", " ", "b", "o", "l", "t">>
    /\ Listed(a.riskNotes[1]) = 5
    /\ GenericNote \notin Range(a.riskNotes)

\* the call of the example has returned
C18_Witness ==
  /\ SecuredCall
  /\ last.ret = "returned"
  /\ last.analysis.riskNotes # <<>>

\* ten times the score of each analysis times its weight (2 high, 1.5
\* medium, 1 low), summed, and ten times the weights, summed
TenfoldSum(analyses) ==
  LET f == [i \in 1..Len(analyses) |->
              analyses[i].riskScore
              * (IF analyses[i].riskLevel = "high" THEN 20
                 ELSE IF analyses[i].riskLevel = "medium" THEN 15 ELSE 10)]
      g[i \in 0..Len(analyses)] == IF i = 0 THEN 0 ELSE g[i - 1] + f[i]
  IN g[Len(analyses)]
TenfoldWeight(analyses) ==
  LET f == [i \in 1..Len(analyses) |->
              IF analyses[i].riskLevel = "high" THEN 20
              ELSE IF analyses[i].riskLevel = "medium" THEN 15 ELSE 10]
      g[i \in 0..Len(analyses)] == IF i = 0 THEN 0 ELSE g[i - 1] + f[i]
  IN g[Len(analyses)]

\* C19: calculateOverallRiskScore returns 5 for the empty list; otherwise
\* its result is a multiple of 0.1 that is as near as any to the mean of the
\* riskScores weighted 2 for high, 1.5 for medium and 1 for low; for a high
\* analysis at 2 and a low analysis at 9 it is 4.3.
C19_OverallIsWeightedMean ==
  last.op = "calculateOverallRiskScore" =>
    LET sum == TenfoldSum(last.analyses)
        weight == TenfoldWeight(last.analyses)
        off == last.score * weight - sum
    IN /\ last.analyses = <<>> => last.score = 50
       /\ last.analyses # <<>> =>
            (2 * off <= weight /\ -2 * off <= weight)
       /\ last.analyses = <<[riskScore |-> 20, riskLevel |-> "high"],
                            [riskScore |-> 90, riskLevel |-> "low"]>>
            => last.score = 43

\* the call of the example has returned 4.3
C19_Witness ==
  /\ last.op = "calculateOverallRiskScore"
  /\ last.analyses = <<[riskScore |-> 20, riskLevel |-> "high"],
                       [riskScore |-> 90, riskLevel |-> "low"]>>
  /\ last.score = 43

\* the call with the empty list has returned 5
C19_WitnessEmpty ==
  /\ last.op = "calculateOverallRiskScore"
  /\ last.analyses = <<>> /\ last.score = 50
\* a call of one of the six store operations on the session id (each
\* records its name in last.op)
StoreCall(id) ==
  \/ last'.op = "get" /\ StoreGet(id)
  \/ last'.op = "update" /\ \E u \in SessionUpdates : StoreUpdate(id, u)
  \/ last'.op = "addImage"
       /\ \E p \in 0..(nextImageId - 1) : StoreAddImage(id, p)
  \/ last'.op = "updateImage"
       /\ \E i \in 1..MaxStoreImages, u \in ImageUpdates :
            StoreUpdateImage(id, i, u)
  \/ last'.op = "getImage" /\ \E i \in 1..MaxStoreImages : StoreGetImage(id, i)
  \/ last'.op = "removeImage"
       /\ \E i \in 1..MaxStoreImages : StoreRemoveImage(id, i)

\* C20: get, update, addImage, updateImage, getImage and removeImage,
\* called with a session id that the store does not hold or whose session is
\* past its expiresAt, return not-found, create no session and leave every
\* session the store holds afterwards as it was, the only entry that can
\* leave the store being the expired one of that id; updateImage with an
\* image id that a live session does not hold returns not-found and leaves
\* the store as it was.
C20_AbsentIdIsNotFound ==
  [][\A id \in SessionIds :
        /\ (~Live(id) /\ StoreCall(id)) =>
              /\ last'.ret = "undefined"
              /\ DOMAIN sessions' = (DOMAIN sessions) \ {id}
              /\ \A k \in DOMAIN sessions' : sessions'[k] = sessions[k]
              /\ id \notin DOMAIN sessions => sessions' = sessions
        /\ Live(id) =>
              \A i \in (1..MaxStoreImages) \ ImageIdsOf(sessions[id].images) :
                (last'.op = "updateImage"
                 /\ \E u \in ImageUpdates : StoreUpdateImage(id, i, u)) =>
                  (last'.ret = "undefined" /\ sessions' = sessions)]_vars

\* an addImage on a session past its expiresAt returned not-found and evicted
\* it, while the store holds a live session
C20_Witness ==
  /\ last.op = "addImage" /\ last.ret = "undefined" /\ last.evicted
  /\ \E k \in DOMAIN sessions : now <= sessions[k].expiresAt

\* an updateImage returned not-found while every session id is live: the
\* image id was absent
C20_WitnessImage ==
  /\ last.op = "updateImage" /\ last.ret = "undefined"
  /\ \A id \in SessionIds : Live(id)
\* C21: a run of the background sweep removes a session exactly when a get
\* of that session at the same instant would evict it, keeps every session
\* with now <= expiresAt, and leaves the sessions it keeps as they were.
C21_SweepAgreesWithGet ==
  [][(last'.op = "sweep" /\ Sweep) =>
       /\ DOMAIN sessions' \subseteq DOMAIN sessions
       /\ \A id \in DOMAIN sessions :
            /\ (id \notin DOMAIN sessions')
                 <=> (id \notin DOMAIN getSession(sessions, id, now).store)
            /\ now <= sessions[id].expiresAt => id \in DOMAIN sessions'
            /\ id \in DOMAIN sessions' => sessions'[id] = sessions[id]]_vars

\* a sweep removed a session past its expiresAt and kept a live one
C21_Witness ==
  /\ last.op = "sweep" /\ last.evicted
  /\ \E id \in DOMAIN sessions : now <= sessions[id].expiresAt

\* a sweep removed nothing while a session was at its expiresAt exactly
C21_WitnessDeadline ==
  /\ last.op = "sweep" /\ ~last.evicted
  /\ \E id \in DOMAIN sessions : now = sessions[id].expiresAt
\* C22: an image whose analysisStatus is complete keeps that status for as
\* long as its session holds it, whatever analyze requests run and overlap.
C22_CompleteIsFinal ==
  [][\A sid \in DOMAIN sessions :
        \A m \in Range(sessions[sid].images) :
          (/\ m.analysisStatus = "complete"
           /\ sid \in DOMAIN sessions'
           /\ m.id \in ImageIdsOf(sessions'[sid].images))
          => StatusOf(sessions'[sid].images, m.id) = "complete"]_vars
\* C23: a securityReport that a session holds stays on it, together with the
\* status complete, through every later analyze request on that session:
\* one that finds no pending image, and one whose batch fails.
C23_ReportIsKept ==
  [][\A sid \in DOMAIN sessions :
        (/\ sessions[sid].securityReport # NoReport
         /\ sessions[sid].analysisStatus = "complete"
         /\ sid \in DOMAIN sessions'
         /\ sessions'[sid].createdAt = sessions[sid].createdAt
         /\ AnalyzeEnds)
        => /\ sessions'[sid].securityReport = sessions[sid].securityReport
           /\ sessions'[sid].analysisStatus = "complete"]_vars
\* the analyze request that this step starts or resumes, if any
Started == {r \in BagToSet(reqs') : r.kind = "analyze"
                                     /\ reqs' = reqs (+) SetToBag({r})}
Resumed ==
  {q \in InFlight("analyze") :
     /\ CopiesIn(q, reqs') < CopiesIn(q, reqs)
     /\ \/ \E o \in LoadOutcomes : AnalyzeLoaded(q, o)
        \/ \E o \in ScoreOutcomes : AnalyzeScored(q, o)}

\* C24: the step that starts a batch leaves the session analyzing and every
\* image that was pending analyzing; no image goes from pending to complete
\* or error in one step; a step of a batch writes no image that was not
\* pending when the batch started.
C24_BatchMarksPending ==
  [][\A sid \in RouteSessionIds :
        Live(sid) /\ sid \in DOMAIN sessions' =>
          LET old == sessions[sid].images
              new == sessions'[sid].images
          IN /\ \A r \in Started :
                  r.sid = sid =>
                    /\ sessions'[sid].analysisStatus = "analyzing"
                    /\ \A m \in Range(old) :
                         m.analysisStatus = "pending"
                           => StatusOf(new, m.id) = "analyzing"
             /\ \A m \in Range(old) :
                  (m.analysisStatus = "pending" /\ m.id \in ImageIdsOf(new))
                    => StatusOf(new, m.id) \in {"pending", "analyzing"}
             /\ \A q \in Started \cup Resumed :
                  q.sid = sid =>
                    \A m \in Range(old) :
                      m.id \notin Range(q.pending) => m \in Range(new)]_vars
\* C25: a live session for which no analyze request is in flight is not
\* analyzing and holds no image that is analyzing.
C25_NothingLeftAnalyzing ==
  \A sid \in DOMAIN sessions :
    (Live(sid) /\ \A q \in InFlight("analyze") : q.sid # sid) =>
      /\ sessions[sid].analysisStatus # "analyzing"
      /\ \A m \in Range(sessions[sid].images) : m.analysisStatus # "analyzing"

\* the last of two overlapping analyze requests has returned: an image whose
\* load failed is error next to one that is complete, and the session is live
C25_Witness ==
  /\ last.op = "analyze" /\ last.ret = "200"
  /\ Live(last.sid) /\ InFlight("analyze") = {}
  /\ last.failed # {}
  /\ \E m \in Range(sessions[last.sid].images) : m.analysisStatus = "complete"
  /\ \E m \in Range(sessions[last.sid].images) : m.analysisStatus = "error"
\* C26: in every session, the parentImageId of an image that has one is the
\* id of an image of that session.
C26_ParentIsPresent ==
  \A sid \in DOMAIN sessions :
    \A m \in Range(sessions[sid].images) :
      m.parentImageId # NoParent
        => m.parentImageId \in ImageIdsOf(sessions[sid].images)
\* the priority a recommendation of the text carries is absent or not a number
Unranked(rec) == Number(Get(rec, "priority")).nan

\* C27: in a report that parseSecurityReport returns, the priorities of
\* prioritizedRecommendations are at least 1 and pairwise distinct, and a
\* recommendation whose priority in the text is absent or not numeric has
\* its 1-based position as priority.
C27_PrioritiesDistinct ==
  (last.op = "parseSecurityReport" /\ last.ret = "report") =>
    LET given == Elements(Get(last.response.parsed, "prioritizedRecommendations"))
        recs == last.report.prioritizedRecommendations
    IN /\ \A i \in 1..Len(recs) : recs[i].priority >= 1
       /\ \A i, j \in 1..Len(recs) :
            i # j => recs[i].priority # recs[j].priority
       /\ \A i \in 1..Len(recs) : Unranked(given[i]) => recs[i].priority = i
\* how many keywords of a table occur in a text
Found(keywords, text) ==
  Cardinality({k \in 1..Len(keywords) : includes(text, keywords[k])})

\* C28: when the keyword scans of calculateRiskScore are over, the score is
\* 5 + 0.5 p - 0.7 n - v, with p and n the numbers of positive and negative
\* keywords that occur in the lower-case text and v = 1 when a
\* vulnerability keyword occurs and p = 0, v = 0 otherwise.
C28_ScoreBeforeFactor ==
  last.op = "calculateRiskScore" =>
    LET text == allTextOf(last.args.tags, last.args.caption,
                          last.args.detectedObjects)
        p == Found(SECURITY_POSITIVE_KEYWORDS, text)
        n == Found(SECURITY_NEGATIVE_KEYWORDS, text)
        v == IF Found(VULNERABILITY_KEYWORDS, text) > 0 /\ p = 0 THEN 1 ELSE 0
    IN last.scoreBeforeFactor = 50 + 5 * p - 7 * n - 10 * v

\* a call has returned whose text holds positive, negative and
\* vulnerability keywords, under a factor other than 1
C28_Witness ==
  /\ last.op = "calculateRiskScore"
  /\ last.args.locationRiskFactor # 100
  /\ LET text == allTextOf(last.args.tags, last.args.caption,
                           last.args.detectedObjects)
     IN /\ Found(SECURITY_POSITIVE_KEYWORDS, text) > 1
        /\ Found(SECURITY_NEGATIVE_KEYWORDS, text) > 1
        /\ Found(VULNERABILITY_KEYWORDS, text) > 0

\* a call has returned whose text holds a vulnerability keyword and no
\* positive one
C28_WitnessUnguarded ==
  /\ last.op = "calculateRiskScore"
  /\ LET text == allTextOf(last.args.tags, last.args.caption,
                           last.args.detectedObjects)
     IN /\ Found(SECURITY_POSITIVE_KEYWORDS, text) = 0
        /\ Found(SECURITY_NEGATIVE_KEYWORDS, text) > 0
        /\ Found(VULNERABILITY_KEYWORDS, text) > 0
        /\ last.scoreBeforeFactor = 40 - 7 * Found(SECURITY_NEGATIVE_KEYWORDS, text)
\* the call of Example 1: the caption alone, factor 1
WoodenCall ==
  /\ last.op = "calculateRiskScore"
  /\ last.args = [tags |-> <<>>, caption |-> CaptionWooden,
                  detectedObjects |-> <<>>, locationRiskFactor |-> 100]

DoorRecommendation == "Consider installing a deadbolt for added door security"

\* the keywords of a table that occur in a text
Matched(keywords, text) ==
  {keywords[k] : k \in {i \in 1..Len(keywords) : includes(text, keywords[i])}}

\* C29 as the claim states it: calculateRiskScore on the caption "wooden
\* door, no lock visible", no tags, no objects, factor 1, matches the
\* vulnerability keywords door and wooden and no positive keyword, so the
\* score before the factor is 5 - 1; the riskLevel is medium or high and
\* the recommendations include the door-specific one.
C29_UnguardedWoodenDoor ==
  WoodenCall =>
    /\ Matched(VULNERABILITY_KEYWORDS, CaptionWooden) = {Door, VULNERABILITY_KEYWORDS[4]}
    /\ Matched(SECURITY_POSITIVE_KEYWORDS, CaptionWooden) = {}
    /\ last.scoreBeforeFactor = 50 - 10
    /\ last.analysis.riskLevel \in {"medium", "high"}
    /\ DoorRecommendation \in Range(last.analysis.recommendations)

\* C29, amended: on that call calculateRiskScore matches the vulnerability
\* keywords door and wooden and the positive keyword lock (in "no lock
\* visible"), so nothing is subtracted for the entry point and 0.5 is added
\* to the neutral score, 5.5; the riskLevel is medium or high and the
\* recommendations include the door-specific one.
C29_WoodenDoorWithLockMatch ==
  WoodenCall =>
    /\ Matched(VULNERABILITY_KEYWORDS, CaptionWooden) = {Door, VULNERABILITY_KEYWORDS[4]}
    /\ Matched(SECURITY_POSITIVE_KEYWORDS, CaptionWooden) = {Lock}
    /\ last.scoreBeforeFactor = 50 + 5
    /\ last.analysis.riskScore = 55
    /\ [note |-> "Security features detected: ", list |-> Lock]
         \in Range(last.analysis.riskNotes)
    /\ last.analysis.riskLevel \in {"medium", "high"}
    /\ DoorRecommendation \in Range(last.analysis.recommendations)

\* the call of Example 1 has returned
C29_Witness ==
  /\ WoodenCall
  /\ last.ret = "returned"
  /\ last.analysis.riskLevel = "medium"
\* C30: when an analyze request has loaded more than MAX_IMAGES_PER_BATCH
\* buffers, its scoring call was sent MAX_IMAGES_PER_BATCH of the loaded
\* images, in the order of the session's list, those that come first in it;
\* and when the call returned a report every loaded image is complete.
C30_FirstTenAreSent ==
  (/\ last.op = "analyze" /\ last.ret = "200"
   /\ last.scored # "none"
   /\ Cardinality(EndedLoaded) > MAX_IMAGES_PER_BATCH) =>
    LET images == sessions[last.sid].images
        sent == last.sent
    IN /\ Len(sent) = MAX_IMAGES_PER_BATCH
       /\ Range(sent) \subseteq EndedLoaded
       /\ \A i, j \in 1..Len(sent) :
            i < j => Pos(images, sent[i]) < Pos(images, sent[j])
       /\ \A x \in EndedLoaded \ Range(sent) :
            \A i \in 1..Len(sent) : Pos(images, sent[i]) < Pos(images, x)
       /\ last.scored = "report" =>
            \A x \in EndedLoaded : StatusOf(images, x) = "complete"

\* a batch of more than ten loaded images got a report: an image that was
\* not sent is complete
C30_Witness ==
  /\ last.op = "analyze" /\ last.ret = "200"
  /\ last.scored = "report"
  /\ Cardinality(EndedLoaded) > MAX_IMAGES_PER_BATCH
  /\ \E x \in EndedLoaded \ Range(last.sent) :
       StatusOf(sessions[last.sid].images, x) = "complete"
====
